---- MODULE Spec2Model ----
(***************************************************************************)
(* State-machine model of the session orchestrator (GameManager), the      *)
(* part of the session store (SessionManager) it calls, and the role       *)
(* assignment functions of game-config / test-config.                      *)
(***************************************************************************)
EXTENDS Integers, Sequences, FiniteSets, TLC

\* ------------------------------------------------------------------ bounds
\* number of distinct identity tokens ever issued
MaxIds == 2
\* number of roster entries the model explores
MaxRoster == 4
\* total number of stored submissions the model explores
MaxSubmissions == 2
\* total number of stored votes the model explores
MaxVotes == 2
\* largest participant count of the role-assignment specification
MaxRoleCount == 9

\* players and votes of the sessions whose scores are computed
MaxScorePlayers == 3
MaxScoreVotes == 3
\* players and votes of the sessions whose results are asked for repeatedly
MaxResultsPlayers == 2
MaxResultsVotes == 1
\* half minutes the clock runs
MaxNow == 2
\* event streams that are opened, and messages kept of each
MaxStreams == 2
MaxSent == 3
\* consecutive heartbeats a stream is seen to lose
MaxFailures == 3
\* calls of one circuit that await their operation at once, and the value the
\* failure counter of a circuit is followed up to
MaxInFlight == 2
MaxCircuitFailures == 5
\* EventSource objects and interval handles one hook is followed through
MaxSources == 7
MaxHandles == 3
\* actions one browser takes while it is offline
MaxOfflineActions == 3
MaxPosted == 4
MaxRetries == 3

\* ------------------------------------------------------- program constants
GAME_MIN_PLAYERS == 8
GAME_MAX_PLAYERS == 16
TEST_MIN_PLAYERS == 1
TEST_MAX_PLAYERS == 4
LOBBY_AUTO_START_THRESHOLD == 12
NUM_ROUNDS == 8
\* the polling circuit: executeWithCircuitBreaker('polling', ..., 3, 30000),
\* and the successes that close a half-open circuit
failureThreshold == 3
halfOpenSuccesses == 3
\* useGameEvents
maxReconnectAttempts == 5
defaultMaxRetries == 5

Ids == 1 .. MaxIds
NoId == 0
Names == {"alice", "Alice", "bob"}
RoleOrder == <<"human", "ai_user", "troll">>
PlayerRole == {"human", "ai_user", "troll"}
Rounds == 1 .. NUM_ROUNDS

phaseOrder ==
  <<"lobby", "role_reveal", "round1", "round2", "round3", "round4", "round5",
    "round6", "round7", "round8", "voting", "results", "finished">>

Phases == {phaseOrder[i] : i \in 1 .. Len(phaseOrder)}

\* String.prototype.toLowerCase on the names of the model
toLowerCase(n) == IF n = "Alice" THEN "alice" ELSE n

VARIABLES
  testMode,        \* TEST_CONFIG.ENABLED, fixed when the process starts
  currentPhase,    \* gameState.currentPhase
  phaseEndTime,    \* gameState.phaseEndTime is non-null
  players,         \* gameState.players, in array order
  adminPlayer,     \* gameState.adminPlayer, NoPlayer for null
  submissions,     \* Map<roundNumber, Submission[]>: player ids in array order
  votes,           \* Vote[] in array order
  phaseTimer,      \* the handle field: "null", "pending" or "fired" (stale)
  pendingTimers,   \* number of setTimeout callbacks of setPhaseTimer not yet run
  roomExists,      \* rooms.has('main')
  sessions,        \* room.sessions
  playerSessions,  \* keys of the playerId -> roomId map
  savedPhase,      \* room.gameState.currentPhase, "none" for a null gameState
  checksumValid,   \* room.integrity.checksum is the checksum of the contents
  backup,          \* room.backup
  nextId,          \* number of identity tokens issued so far
  ret,             \* the last orchestrator call and what it returned
  events,          \* event types emitted by the last orchestrator call
  roleIds,         \* role-assignment specification: the playerIds argument
  roleResult,      \* role-assignment specification: the returned assignments
  startedAt,       \* gameState.startedAt in half minutes, NoTime for null
  now,             \* Date.now() in half minutes
  results,         \* the GameResults the last calculateResults() returned
  streams,         \* GET /api/events: the ReadableStream of every request
  breaker,         \* NetworkRecoveryManager.circuitStates.get('polling')
  hook,            \* useGameEvents: the refs and state of one mounted hook
  offline,         \* OfflineGameManager of one player
  recovery         \* NetworkRecoveryManager: one executeWithRecovery call

gameVars == <<currentPhase, phaseEndTime, players, adminPlayer, submissions, votes>>
timerVars == <<phaseTimer, pendingTimers>>
storeVars == <<roomExists, sessions, playerSessions, savedPhase, checksumValid, backup>>
roleVars == <<roleIds, roleResult>>
scoreVars == <<now, results>>
clientVars == <<breaker, hook, offline, recovery>>
vars ==
  <<testMode, currentPhase, phaseEndTime, players, adminPlayer, submissions,
    votes, phaseTimer, pendingTimers, roomExists, sessions, playerSessions,
    savedPhase, checksumValid, backup, nextId, ret, events, roleIds, roleResult,
    startedAt, now, results, streams, breaker, hook, offline, recovery>>

\* --------------------------------------------------------------- helpers
NoPlayer == [id |-> NoId, name |-> "", role |-> "human", isConnected |-> FALSE]
NoSession == [playerName |-> "", isAdmin |-> FALSE, active |-> FALSE]
EmptySessions == [i \in Ids |-> NoSession]
NoBackup == [present |-> FALSE, sessionBackup |-> EmptySessions, savedPhase |-> "none"]
NoTime == -1
NoResults == [finalScores |-> <<>>, votingResults |-> <<>>,
              roundSubmissions |-> <<>>, gameStats |-> <<>>]
NoAssignment == <<>>

Range(s) == {s[i] : i \in 1 .. Len(s)}
IndexOfPhase(p) == CHOOSE i \in 1 .. Len(phaseOrder) : phaseOrder[i] = p
PlayerIdsOf(ps) == {ps[i].id : i \in 1 .. Len(ps)}
CountId(ps, pid) == Cardinality({i \in 1 .. Len(ps) : ps[i].id = pid})
Ret(op, ok, id) == [op |-> op, ok |-> ok, id |-> id]

\* getGameConfig(): the effective configuration
MinPlayers == IF testMode THEN TEST_MIN_PLAYERS ELSE GAME_MIN_PLAYERS
MaxPlayers == IF testMode THEN TEST_MAX_PLAYERS ELSE GAME_MAX_PLAYERS

\* GameManager.getPlayer: the admin first, then the first roster entry
getPlayer(pid) ==
  IF adminPlayer # NoPlayer /\ adminPlayer.id = pid THEN adminPlayer
  ELSE IF \E i \in 1 .. Len(players) : players[i].id = pid
       THEN players[CHOOSE i \in 1 .. Len(players) :
                      /\ players[i].id = pid
                      /\ \A j \in 1 .. i - 1 : players[j].id # pid]
       ELSE NoPlayer

\* GameManager.isAdmin
isAdmin(pid) == adminPlayer # NoPlayer /\ adminPlayer.id = pid

\* ------------------------------------------------------- session store
\* SessionManager.getSession
getSession(pid) ==
  IF pid \in playerSessions /\ roomExists THEN sessions[pid] ELSE NoSession

\* SessionManager.canRejoinGame
canRejoinGame(pid) ==
  /\ getSession(pid) # NoSession
  /\ pid \in playerSessions
  /\ savedPhase # "none"
  /\ getSession(pid).active
  /\ savedPhase # "finished"

\* getOrCreateRoom that recreates the room on every checksum mismatch
recreateRoom ==
  IF roomExists /\ checksumValid THEN sessions ELSE EmptySessions

\* SessionManager.getOrCreateRoom: the sessions of the room it returns.  A
\* missing room is created empty; a room whose checksum does not match is
\* restored from its backup, or emptied when there is none.
getOrCreateRoom ==
  IF ~roomExists THEN EmptySessions
  ELSE IF checksumValid THEN sessions
  ELSE IF backup.present THEN backup.sessionBackup
  ELSE EmptySessions

\* A session object is shared by room.sessions and by the Map copy in
\* room.backup, so a field written through one is seen through the other.
WriteThrough(bk, pid, s) ==
  IF bk.present /\ bk.sessionBackup[pid] # NoSession
  THEN [bk EXCEPT !.sessionBackup[pid] = s]
  ELSE bk

\* SessionManager.createOrRestoreSession: the store it leaves behind
createOrRestoreSession(pid, name, admin) ==
  LET room == getOrCreateRoom
      s == [playerName |-> name, isAdmin |-> admin, active |-> TRUE]
  IN [sessions |-> [room EXCEPT ![pid] = s],
      playerSessions |-> IF room[pid] = NoSession
                         THEN playerSessions \cup {pid} ELSE playerSessions,
      backup |-> IF room[pid] = NoSession THEN backup ELSE WriteThrough(backup, pid, s)]

\* ---------------------------------------------------------- event streams
\* the requests made so far
Streams == DOMAIN streams

\* a request that was aborted: no listener, no interval, nothing sent
NoStream ==
  [listener |-> FALSE, writable |-> FALSE, sent |-> <<>>, failed |-> 0,
   gameData |-> <<>>]

\* the player a player_left event of this step names: the roster entry that
\* removePlayer spliced out
leftPlayer ==
  LET i == CHOOSE k \in 1 .. Len(players) :
             /\ k > Len(players') \/ players'[k] # players[k]
             /\ \A j \in 1 .. k - 1 : players'[j] = players[j]
  IN players[i].id

\* useGameEvents, the listeners of the EventSource: gameData.gameState of the
\* hook (phase and roster ids) after it has handled the event this step emits;
\* the data of the event is read off the state the step leaves
addEventListener(gameData, type) ==
  CASE type = "player_joined" ->
         [gameData EXCEPT !.players = Append(@, players'[Len(players')].id)]
    [] type = "player_left" ->
         [gameData EXCEPT !.players = SelectSeq(@, LAMBDA id : id # leftPlayer)]
    [] type = "phase_changed" ->
         [gameData EXCEPT !.currentPhase = currentPhase']
    [] type = "game_started" ->
         [currentPhase |-> currentPhase',
          players |-> [i \in 1 .. Len(players') |-> players'[i].id]]
    [] OTHER -> gameData

\* the listeners applied to the events of one call, in order
RECURSIVE handled(_, _)
handled(gameData, types) ==
  IF types = <<>> THEN gameData
  ELSE handled(addEventListener(gameData, Head(types)), Tail(types))

\* an eventListener that keeps only the last event of an emitting call
ForwardLast ==
  /\ \A c \in Streams :
       (streams[c].listener /\ streams[c].writable) =>
         Len(streams[c].sent) + Len(events') <= MaxSent
  /\ streams' =
       [c \in Streams |->
          IF streams[c].listener /\ streams[c].writable /\ events' # <<>>
          THEN [streams[c] EXCEPT
                  !.sent = Append(@, [event |-> events'[Len(events')], data |-> <<>>])]
          ELSE streams[c]]

\* the listeners of 'gameEvent' run inside emit, before the emitting call
\* returns: eventListener (events/route.ts 35-40) passes every event of the
\* call on to its stream through sendEvent, which drops what enqueue rejects;
\* gameData is what the hook reading the stream then holds
Forward ==
  IF streams = <<>> \/ events' = <<>> THEN streams' = streams
  ELSE
    /\ \A c \in Streams :
         (streams[c].listener /\ streams[c].writable) =>
           Len(streams[c].sent) + Len(events') <= MaxSent
    /\ streams' =
         [c \in Streams |->
            IF streams[c].listener /\ streams[c].writable
            THEN [streams[c] EXCEPT
                    !.sent = @ \o [i \in 1 .. Len(events') |->
                                     [event |-> events'[i], data |-> <<>>]],
                    !.gameData = handled(@, events')]
            ELSE streams[c]]

\* the browser side before a hook is mounted
NoBreaker == [state |-> "absent"]
NoHook == [mounted |-> FALSE, last |-> "none"]
NoQueue ==
  [submission |-> [p \in Ids |-> 0], votes |-> [p \in Ids |-> 0], taken |-> 0,
   last |-> [op |-> "none", statuses |-> <<>>, threw |-> FALSE], posted |-> <<>>]

\* no executeWithRecovery call has been made
NoCall == [status |-> "idle"]

InitPeers ==
  /\ streams = <<>>
  /\ breaker = NoBreaker
  /\ hook = NoHook
  /\ offline = NoQueue
  /\ recovery = NoCall

\* --------------------------------------------------------------- Init
\* the orchestrator and the store as their constructors leave them
InitSession ==
  /\ testMode \in BOOLEAN
  /\ currentPhase = "lobby"
  /\ phaseEndTime = FALSE
  /\ players = <<>>
  /\ adminPlayer = NoPlayer
  /\ submissions = [r \in Rounds |-> <<>>]
  /\ votes = <<>>
  /\ phaseTimer = "null"
  /\ pendingTimers = 0
  /\ roomExists = FALSE
  /\ sessions = EmptySessions
  /\ playerSessions = {}
  /\ savedPhase = "none"
  /\ checksumValid = TRUE
  /\ backup = NoBackup
  /\ nextId = 0
  /\ ret = Ret("init", TRUE, NoId)
  /\ events = <<>>
  /\ roleResult = NoAssignment
  /\ startedAt = NoTime
  /\ now = 0
  /\ results = NoResults
  /\ InitPeers

Init == InitSession /\ roleIds = <<>>

\* ------------------------------------------------------------ addPlayer
\* the restore branch of addPlayer is taken
RestoresSession(name, existingPlayerId) ==
  /\ existingPlayerId # NoId
  /\ canRejoinGame(existingPlayerId)
  /\ toLowerCase(getSession(existingPlayerId).playerName) = toLowerCase(name)

\* GameManager.addPlayer(name, isAdmin, existingPlayerId); newId is the value
\* generatePlayerId() would return.
addPlayer(name, asAdmin, existingPlayerId, newId) ==
  LET playerId == IF existingPlayerId # NoId THEN existingPlayerId ELSE newId
      session == getSession(existingPlayerId)
      restored == [id |-> existingPlayerId, name |-> session.playerName,
                   role |-> "human", isConnected |-> TRUE]
      created == [id |-> playerId, name |-> name, role |-> "human",
                  isConnected |-> TRUE]
      nameTakenByOthers ==
        \E i \in 1 .. Len(players) :
          /\ toLowerCase(players[i].name) = toLowerCase(name)
          /\ players[i].id # playerId
      nameTakenByAdmin ==
        /\ adminPlayer # NoPlayer
        /\ toLowerCase(adminPlayer.name) = toLowerCase(name)
        /\ adminPlayer.id # playerId
      store == createOrRestoreSession(playerId, name, asAdmin)
      reject ==
        /\ ret' = Ret("addPlayer", FALSE, NoId)
        /\ events' = <<>>
        /\ UNCHANGED <<gameVars, timerVars, storeVars, nextId>>
  IN
  IF currentPhase # "lobby" THEN reject
  ELSE IF RestoresSession(name, existingPlayerId) THEN
    \* updateSessionActivity, then saveGameState: neither recomputes the checksum
    /\ IF session.isAdmin
       THEN /\ adminPlayer' = restored
            /\ players' = players
            /\ events' = <<"admin_joined">>
       ELSE IF existingPlayerId \in PlayerIdsOf(players)
       THEN /\ UNCHANGED <<players, adminPlayer>>
            /\ events' = <<>>
       ELSE /\ players' = Append(players, restored)
            /\ adminPlayer' = adminPlayer
            /\ events' = <<"player_joined">>
    /\ savedPhase' = currentPhase
    /\ checksumValid' = FALSE
    /\ ret' = Ret("addPlayer", TRUE, existingPlayerId)
    /\ UNCHANGED <<currentPhase, phaseEndTime, submissions, votes, timerVars,
                   roomExists, sessions, playerSessions, backup, nextId>>
  ELSE IF asAdmin THEN
    IF adminPlayer # NoPlayer \/ nameTakenByOthers THEN reject
    ELSE
      /\ adminPlayer' = created
      /\ events' = <<"admin_joined">>
      /\ roomExists' = TRUE
      /\ sessions' = store.sessions
      /\ playerSessions' = store.playerSessions
      /\ backup' = store.backup
      /\ savedPhase' = currentPhase
      /\ checksumValid' = FALSE
      /\ nextId' = IF existingPlayerId = NoId THEN newId ELSE nextId
      /\ ret' = Ret("addPlayer", TRUE, playerId)
      /\ UNCHANGED <<currentPhase, phaseEndTime, players, submissions, votes, timerVars>>
  ELSE
    IF Len(players) >= MaxPlayers \/ nameTakenByOthers \/ nameTakenByAdmin THEN reject
    ELSE
      /\ players' = Append(players, created)
      /\ events' = <<"player_joined">>
      /\ roomExists' = TRUE
      /\ sessions' = store.sessions
      /\ playerSessions' = store.playerSessions
      /\ backup' = store.backup
      /\ savedPhase' = currentPhase
      /\ checksumValid' = FALSE
      /\ nextId' = IF existingPlayerId = NoId THEN newId ELSE nextId
      /\ ret' = Ret("addPlayer", TRUE, playerId)
      /\ UNCHANGED <<currentPhase, phaseEndTime, adminPlayer, submissions, votes, timerVars>>

\* A client joins under one of the names, presenting one of the tokens (NoId
\* for none), while the roster holds fewer than limit entries.
JoinUpTo(names, tokens, limit) ==
  \E name \in names, asAdmin \in BOOLEAN, existingPlayerId \in tokens :
    /\ Len(players) < limit
    \* checkAutoStart schedules startGame from this roster size on; the rosters
    \* explored stay below it
    /\ Len(players) + 1 < LOBBY_AUTO_START_THRESHOLD
    /\ existingPlayerId = NoId => nextId < MaxIds
    /\ addPlayer(name, asAdmin, existingPlayerId, nextId + 1)
    /\ Forward /\ UNCHANGED <<testMode, roleVars, startedAt, scoreVars, clientVars>>

JoinWith(names, tokens) == JoinUpTo(names, tokens, MaxRoster)

\* A client joins, presenting no token or a token issued to a client before.
AddPlayer == JoinWith(Names, 0 .. nextId)

\* A client that holds no token joins.
AddNewPlayer == JoinWith({"alice", "bob"}, {NoId})

\* ------------------------------------------------------ role assignment
\* number of entries of the sequence s equal to r
CountRole(s, r) == Cardinality({i \in 1 .. Len(s) : s[i] = r})

\* the last position of id in the playerIds array: assignments[playerId] is
\* written once per position, so the last write wins
LastIndex(playerIds, id) ==
  CHOOSE i \in 1 .. Len(playerIds) :
    /\ playerIds[i] = id
    /\ \A j \in i + 1 .. Len(playerIds) : playerIds[j] # id

\* getRoleDistribution throws for this player count
DistributionThrows(playerCount) ==
  playerCount < GAME_MIN_PLAYERS \/ playerCount > GAME_MAX_PLAYERS

\* getRoleDistribution(playerCount): 3/3/2 for 8 players, the extra players
\* handed out round-robin in the order human, ai_user, troll
getRoleDistribution(playerCount) ==
  LET extra(k) == Cardinality({i \in 0 .. playerCount - 9 : i % 3 = k})
  IN [human |-> 3 + extra(0), ai_user |-> 3 + extra(1), troll |-> 2 + extra(2)]

\* assignRoles(playerIds): every id gets roles[randomIndex], drawn independently
assignRoles(playerIds) == [Range(playerIds) -> PlayerRole]

\* getTestRoleDistribution throws for this player count
TestDistributionThrows(playerCount) ==
  playerCount \notin 1 .. 4 /\ DistributionThrows(playerCount)

\* getTestRoleDistribution(playerCount): the distributions it can return
getTestRoleDistribution(playerCount) ==
  IF playerCount = 1 THEN
    {[human |-> 1, ai_user |-> 0, troll |-> 0],
     [human |-> 0, ai_user |-> 1, troll |-> 0],
     [human |-> 0, ai_user |-> 0, troll |-> 1]}
  ELSE IF playerCount = 2 THEN
    \* roles[k] and roles[(k + 17) % 3]: two different roles
    {[human |-> 1, ai_user |-> 0, troll |-> 1],
     [human |-> 1, ai_user |-> 1, troll |-> 0],
     [human |-> 0, ai_user |-> 1, troll |-> 1]}
  ELSE IF playerCount = 3 THEN {[human |-> 1, ai_user |-> 1, troll |-> 1]}
  ELSE IF playerCount = 4 THEN {[human |-> 2, ai_user |-> 1, troll |-> 1]}
  ELSE {getRoleDistribution(playerCount)}

\* assignTestRoles(playerIds): the role pool of a distribution, shuffled, is
\* dealt to the positions of playerIds
assignTestRoles(playerIds) ==
  LET n == Len(playerIds)
      pools == {pool \in [1 .. n -> PlayerRole] :
                  \E d \in getTestRoleDistribution(n) :
                    /\ CountRole(pool, "human") = d.human
                    /\ CountRole(pool, "ai_user") = d.ai_user
                    /\ CountRole(pool, "troll") = d.troll}
  IN {[id \in Range(playerIds) |-> pool[LastIndex(playerIds, id)]] : pool \in pools}

\* TEST_CONFIG.ENABLED ? assignTestRoles(playerIds) : assignRoles(playerIds)
RoleAssignmentThrows(playerIds) ==
  testMode /\ TestDistributionThrows(Len(playerIds))

RoleAssignments(playerIds) ==
  IF testMode THEN assignTestRoles(playerIds) ELSE assignRoles(playerIds)

\* ------------------------------------------------------------- timers
Timers == [phaseTimer |-> phaseTimer, pendingTimers |-> pendingTimers,
           phaseEndTime |-> phaseEndTime]

\* GameManager.clearPhaseTimer
clearPhaseTimer(t) ==
  IF t.phaseTimer # "null"
  THEN [phaseTimer |-> "null",
        pendingTimers |-> IF t.phaseTimer = "pending"
                          THEN t.pendingTimers - 1 ELSE t.pendingTimers,
        phaseEndTime |-> FALSE]
  ELSE t

\* GameManager.setPhaseTimer
setPhaseTimer(t) ==
  LET c == clearPhaseTimer(t)
  IN [phaseTimer |-> "pending", pendingTimers |-> c.pendingTimers + 1,
      phaseEndTime |-> TRUE]

SetTimers(t) ==
  /\ phaseTimer' = t.phaseTimer
  /\ pendingTimers' = t.pendingTimers
  /\ phaseEndTime' = t.phaseEndTime

\* ---------------------------------------------------- start and advance
allPlayerIds ==
  [i \in 1 .. Len(players) |-> players[i].id]
    \o (IF adminPlayer # NoPlayer THEN <<adminPlayer.id>> ELSE <<>>)

\* the body shared by startGame and adminForceStart once their guards passed
AssignAndStart(op) ==
  IF RoleAssignmentThrows(allPlayerIds) THEN
    \* getRoleDistribution throws before anything is written
    /\ ret' = Ret(op, FALSE, NoId)
    /\ events' = <<>>
    /\ UNCHANGED <<gameVars, timerVars, storeVars, nextId>>
  ELSE
    \E roleAssignments \in RoleAssignments(allPlayerIds) :
      /\ players' = [i \in 1 .. Len(players) |->
                       [players[i] EXCEPT !.role = roleAssignments[players[i].id]]]
      /\ adminPlayer' = IF adminPlayer # NoPlayer
                        THEN [adminPlayer EXCEPT !.role = roleAssignments[adminPlayer.id]]
                        ELSE adminPlayer
      /\ currentPhase' = "role_reveal"
      /\ SetTimers(setPhaseTimer(Timers))
      /\ events' = <<"game_started">>
      /\ ret' = Ret(op, TRUE, NoId)
      /\ UNCHANGED <<submissions, votes, storeVars, nextId>>

Rejected(op) ==
  /\ ret' = Ret(op, FALSE, NoId)
  /\ events' = <<>>
  /\ UNCHANGED <<gameVars, timerVars, storeVars, nextId>>

\* GameManager.startGame
startGame ==
  IF currentPhase # "lobby" THEN Rejected("startGame")
  ELSE IF Len(players) < MinPlayers THEN Rejected("startGame")
  ELSE AssignAndStart("startGame")

\* adminForceStart had it kept startGame's minimum-player test
adminForceStartWithMinimum(adminId) ==
  IF ~isAdmin(adminId) THEN Rejected("adminForceStart")
  ELSE IF currentPhase # "lobby" THEN Rejected("adminForceStart")
  ELSE IF Len(players) < MinPlayers THEN Rejected("adminForceStart")
  ELSE AssignAndStart("adminForceStart")

\* GameManager.adminForceStart
adminForceStart(adminId) ==
  IF ~isAdmin(adminId) THEN Rejected("adminForceStart")
  ELSE IF currentPhase # "lobby" THEN Rejected("adminForceStart")
  ELSE IF Len(players) = 0 THEN Rejected("adminForceStart")
  ELSE AssignAndStart("adminForceStart")

\* the duration advancePhase selects for the phase it enters is positive
ArmsTimer(nextPhase) ==
  nextPhase \in {phaseOrder[i] : i \in 3 .. 10} \cup {"voting", "results"}

\* GameManager.advancePhase, run with the timer fields t
advancePhase(op, t) ==
  LET currentIndex == IndexOfPhase(currentPhase)
      nextPhase == phaseOrder[currentIndex + 1]
  IN IF currentIndex = Len(phaseOrder) THEN
       /\ ret' = Ret(op, FALSE, NoId)
       /\ events' = <<>>
       /\ SetTimers(t)
       /\ UNCHANGED <<currentPhase, players, adminPlayer, submissions, votes,
                      storeVars, nextId>>
     ELSE
       /\ currentPhase' = nextPhase
       /\ SetTimers(IF ArmsTimer(nextPhase) THEN setPhaseTimer(t) ELSE t)
       /\ events' = <<"phase_changed">>
       /\ ret' = Ret(op, TRUE, NoId)
       /\ UNCHANGED <<players, adminPlayer, submissions, votes, storeVars, nextId>>

\* GameManager.adminAdvancePhase
adminAdvancePhase(adminId) ==
  IF ~isAdmin(adminId) THEN Rejected("adminAdvancePhase")
  ELSE advancePhase("adminAdvancePhase", Timers)

\* GameManager.adminSkipPhase
adminSkipPhase(adminId) ==
  IF ~isAdmin(adminId) THEN Rejected("adminSkipPhase")
  ELSE advancePhase("adminSkipPhase", clearPhaseTimer(Timers))

\* GameManager.adminSetTimer
adminSetTimer(adminId) ==
  IF ~isAdmin(adminId) THEN Rejected("adminSetTimer")
  ELSE /\ SetTimers(setPhaseTimer(clearPhaseTimer(Timers)))
       /\ events' = <<"timer_set">>
       /\ ret' = Ret("adminSetTimer", TRUE, NoId)
       /\ UNCHANGED <<currentPhase, players, adminPlayer, submissions, votes,
                      storeVars, nextId>>

\* A pending timeout of setPhaseTimer runs its callback, advancePhase.  The
\* handle field keeps naming a timeout that has run (held); a pending timeout
\* the handle no longer names leaves the handle as it is.
phaseTimerCallback(held) ==
  /\ pendingTimers > 0
  /\ held <=> phaseTimer = "pending"
  /\ ~held => pendingTimers > 1 \/ phaseTimer # "pending"
  /\ advancePhase("timer", [phaseTimer |-> IF held THEN "fired" ELSE phaseTimer,
                            pendingTimers |-> pendingTimers - 1,
                            phaseEndTime |-> phaseEndTime])

\* ------------------------------------------------- leave and connection
\* SessionManager.removeSession
removeSession(pid) ==
  IF pid \in playerSessions /\ roomExists
  THEN [sessions |-> [sessions EXCEPT ![pid] = NoSession],
        playerSessions |-> playerSessions \ {pid},
        checksumValid |-> checksumValid /\ sessions[pid] = NoSession]
  ELSE [sessions |-> sessions, playerSessions |-> playerSessions,
        checksumValid |-> checksumValid]

\* SessionManager.saveGameState: stores the phase when the room exists
saveGameState(phase) == IF roomExists THEN phase ELSE savedPhase

\* the first index of pid in the roster, 0 for findIndex's -1
findIndex(pid) ==
  IF pid \in PlayerIdsOf(players)
  THEN CHOOSE i \in 1 .. Len(players) :
         /\ players[i].id = pid
         /\ \A j \in 1 .. i - 1 : players[j].id # pid
  ELSE 0

\* Array.prototype.splice(index, 1)
splice(s, index) == [i \in 1 .. Len(s) - 1 |-> IF i < index THEN s[i] ELSE s[i + 1]]

\* checkGameContinuation counting every roster entry, connected or not
EndsForTooFewEntries(ps) ==
  /\ currentPhase # "lobby"
  /\ Len(ps) < MinPlayers

\* the condition of checkGameContinuation for the roster ps
EndsForInsufficientPlayers(ps) ==
  /\ currentPhase # "lobby"
  /\ Cardinality({i \in 1 .. Len(ps) : ps[i].isConnected}) < MinPlayers

\* GameManager.removePlayer
removePlayer(op, playerId) ==
  LET store == removeSession(playerId)
      playerIndex == findIndex(playerId)
      remaining == splice(players, playerIndex)
  IN
  /\ sessions' = store.sessions
  /\ playerSessions' = store.playerSessions
  /\ UNCHANGED <<roomExists, backup, submissions, votes, nextId>>
  /\ IF isAdmin(playerId) THEN
       /\ adminPlayer' = NoPlayer
       /\ events' = <<"admin_left">>
       /\ savedPhase' = saveGameState(currentPhase)
       /\ checksumValid' = (store.checksumValid /\ ~roomExists)
       /\ ret' = Ret(op, TRUE, NoId)
       /\ UNCHANGED <<currentPhase, phaseEndTime, players, timerVars>>
     ELSE IF playerIndex = 0 THEN
       /\ events' = <<>>
       /\ checksumValid' = store.checksumValid
       /\ ret' = Ret(op, FALSE, NoId)
       /\ UNCHANGED <<currentPhase, phaseEndTime, players, adminPlayer, timerVars, savedPhase>>
     ELSE
       /\ players' = remaining
       /\ adminPlayer' = adminPlayer
       /\ savedPhase' = saveGameState(currentPhase)
       /\ checksumValid' = (store.checksumValid /\ ~roomExists)
       /\ ret' = Ret(op, TRUE, NoId)
       /\ IF EndsForInsufficientPlayers(remaining)
          THEN /\ currentPhase' = "finished"
               /\ SetTimers(clearPhaseTimer(Timers))
               /\ events' = <<"player_left", "game_ended">>
          ELSE /\ UNCHANGED <<currentPhase, phaseEndTime, timerVars>>
               /\ events' = <<"player_left">>

\* GameManager.adminKickPlayer
adminKickPlayer(adminId, targetPlayerId) ==
  IF ~isAdmin(adminId) THEN Rejected("adminKickPlayer")
  ELSE IF targetPlayerId = adminId THEN Rejected("adminKickPlayer")
  ELSE removePlayer("adminKickPlayer", targetPlayerId)

\* SessionManager.updateSessionActivity: lastSeen becomes now
updateSessionActivity(pid) ==
  IF pid \in playerSessions /\ roomExists /\ sessions[pid] # NoSession
  THEN [sessions |-> [sessions EXCEPT ![pid].active = TRUE],
        backup |-> WriteThrough(backup, pid, [sessions[pid] EXCEPT !.active = TRUE]),
        checksumValid |-> FALSE]
  ELSE [sessions |-> sessions, backup |-> backup, checksumValid |-> checksumValid]

\* GameManager.updatePlayerConnection
updatePlayerConnection(playerId, isConnected) ==
  LET store == IF isConnected THEN updateSessionActivity(playerId)
               ELSE [sessions |-> sessions, backup |-> backup,
                     checksumValid |-> checksumValid]
      playerIndex == findIndex(playerId)
  IN
  /\ sessions' = store.sessions
  /\ backup' = store.backup
  /\ events' = <<>>
  /\ UNCHANGED <<currentPhase, phaseEndTime, submissions, votes, timerVars,
                 roomExists, playerSessions, nextId>>
  /\ IF isAdmin(playerId) THEN
       /\ adminPlayer' = [adminPlayer EXCEPT !.isConnected = isConnected]
       /\ players' = players
       /\ savedPhase' = saveGameState(currentPhase)
       /\ checksumValid' = (store.checksumValid /\ ~roomExists)
       /\ ret' = Ret("updatePlayerConnection", TRUE, NoId)
     ELSE IF playerIndex = 0 THEN
       /\ checksumValid' = store.checksumValid
       /\ ret' = Ret("updatePlayerConnection", FALSE, NoId)
       /\ UNCHANGED <<players, adminPlayer, savedPhase>>
     ELSE
       /\ players' = [players EXCEPT ![playerIndex].isConnected = isConnected]
       /\ adminPlayer' = adminPlayer
       /\ savedPhase' = saveGameState(currentPhase)
       /\ checksumValid' = (store.checksumValid /\ ~roomExists)
       /\ ret' = Ret("updatePlayerConnection", TRUE, NoId)

\* ------------------------------------------------- submissions and votes
\* GameManager.isValidSubmissionPhase: currentPhase is `round${roundNumber}`
isValidSubmissionPhase(roundNumber) == currentPhase = phaseOrder[roundNumber + 2]

TotalSubmissions(subs) ==
  Cardinality({<<r, i>> \in Rounds \X (1 .. MaxSubmissions + 2) : i <= Len(subs[r])})

\* addSubmission without the roundSubmissions.some(...) test
AcceptsSubmissionUnchecked(playerId, roundNumber) ==
  /\ isValidSubmissionPhase(roundNumber)
  /\ getPlayer(playerId) # NoPlayer

\* addSubmission returns true
AcceptsSubmission(playerId, roundNumber) ==
  /\ isValidSubmissionPhase(roundNumber)
  /\ getPlayer(playerId) # NoPlayer
  /\ ~ \E i \in 1 .. Len(submissions[roundNumber]) :
         submissions[roundNumber][i] = playerId

\* GameManager.addSubmission
addSubmission(playerId, roundNumber) ==
  IF ~AcceptsSubmission(playerId, roundNumber) THEN Rejected("addSubmission")
  ELSE
    /\ submissions' = [submissions EXCEPT ![roundNumber] = Append(@, playerId)]
    /\ events' = <<"submission_received">>
    /\ ret' = Ret("addSubmission", TRUE, NoId)
    /\ UNCHANGED <<currentPhase, phaseEndTime, players, adminPlayer, votes,
                   timerVars, storeVars, nextId>>

\* addVote returns true
AcceptsVote(voterId, targetPlayerId) ==
  /\ currentPhase = "voting"
  /\ getPlayer(voterId) # NoPlayer
  /\ getPlayer(targetPlayerId) # NoPlayer
  /\ voterId # targetPlayerId

\* the votes array had addVote pushed without filtering out the pair's vote
votesAfterUnfiltered(voterId, targetPlayerId, predictedRole) ==
  Append(votes, [voterId |-> voterId, targetPlayerId |-> targetPlayerId,
                 predictedRole |-> predictedRole])

\* the votes array after addVote filtered out the pair's vote and pushed
votesAfter(voterId, targetPlayerId, predictedRole) ==
  LET keep(v) == ~(v.voterId = voterId /\ v.targetPlayerId = targetPlayerId)
  IN Append(SelectSeq(votes, keep),
            [voterId |-> voterId, targetPlayerId |-> targetPlayerId,
             predictedRole |-> predictedRole])

\* GameManager.addVote
addVote(voterId, targetPlayerId, predictedRole) ==
  IF ~AcceptsVote(voterId, targetPlayerId) THEN Rejected("addVote")
  ELSE
    /\ votes' = votesAfter(voterId, targetPlayerId, predictedRole)
    /\ events' = <<"vote_received">>
    /\ ret' = Ret("addVote", TRUE, NoId)
    /\ UNCHANGED <<currentPhase, phaseEndTime, players, adminPlayer, submissions,
                   timerVars, storeVars, nextId>>

\* ------------------------------------------------------------- reset
\* GameManager.reset; first holds what was emitted before reset was called
reset(op, first) ==
  /\ SetTimers(clearPhaseTimer(Timers))
  /\ currentPhase' = "lobby"
  /\ players' = <<>>
  /\ adminPlayer' = NoPlayer
  /\ submissions' = [r \in Rounds |-> <<>>]
  /\ votes' = <<>>
  /\ events' = first \o <<"game_ended">>
  /\ ret' = Ret(op, TRUE, NoId)
  /\ UNCHANGED <<storeVars, nextId>>

\* GameManager.adminResetGame
adminResetGame(adminId) ==
  IF ~isAdmin(adminId) THEN Rejected("adminResetGame") ELSE reset("adminResetGame", <<>>)

\* GameManager.adminDestroyGame
adminDestroyGame(adminId) ==
  IF ~isAdmin(adminId) THEN Rejected("adminDestroyGame")
  ELSE reset("adminDestroyGame", <<"game_destroyed">>)

\* GameManager.adminAssignRole
adminAssignRole(adminId, targetPlayerId, role) ==
  IF ~isAdmin(adminId) THEN Rejected("adminAssignRole")
  ELSE IF findIndex(targetPlayerId) = 0 THEN Rejected("adminAssignRole")
  ELSE /\ players' = [players EXCEPT ![findIndex(targetPlayerId)].role = role]
       /\ events' = <<"role_assigned">>
       /\ ret' = Ret("adminAssignRole", TRUE, NoId)
       /\ UNCHANGED <<currentPhase, phaseEndTime, adminPlayer, submissions, votes,
                      timerVars, storeVars, nextId>>

\* ------------------------------------------------ the store's own clock
\* SessionManager.performBackup -> createBackup
performBackup ==
  /\ roomExists
  /\ (\E i \in Ids : sessions[i] # NoSession) \/ savedPhase # "none"
  /\ backup' = [present |-> TRUE, sessionBackup |-> sessions, savedPhase |-> savedPhase]
  /\ UNCHANGED <<gameVars, timerVars, roomExists, sessions, playerSessions,
                 savedPhase, checksumValid, nextId, ret, events>>

\* --------------------------------------------------------- the actions
\* startGame and adminForceStart set gameState.startedAt = new Date() once the
\* roles are assigned; reset replaces gameState by initializeGameState()
SetsStartedAt == startedAt' = IF ret'.ok THEN now ELSE startedAt
ClearsStartedAt == startedAt' = IF ret'.ok THEN NoTime ELSE startedAt

StartGame == startGame /\ SetsStartedAt /\ Forward /\ UNCHANGED <<testMode, roleVars, scoreVars, clientVars>>

AdvancePhase == advancePhase("advancePhase", Timers) /\ Forward /\ UNCHANGED <<testMode, roleVars, startedAt, scoreVars, clientVars>>

TimerFires ==
  \E held \in BOOLEAN : phaseTimerCallback(held) /\ Forward /\ UNCHANGED <<testMode, roleVars, startedAt, scoreVars, clientVars>>

AdminForceStart ==
  \E adminId \in 1 .. nextId : adminForceStart(adminId) /\ SetsStartedAt /\ Forward /\ UNCHANGED <<testMode, roleVars, scoreVars, clientVars>>

AdminAdvancePhase ==
  \E adminId \in 1 .. nextId : adminAdvancePhase(adminId) /\ Forward /\ UNCHANGED <<testMode, roleVars, startedAt, scoreVars, clientVars>>

AdminSkipPhase ==
  \E adminId \in 1 .. nextId : adminSkipPhase(adminId) /\ Forward /\ UNCHANGED <<testMode, roleVars, startedAt, scoreVars, clientVars>>

AdminSetTimer ==
  \E adminId \in 1 .. nextId : adminSetTimer(adminId) /\ Forward /\ UNCHANGED <<testMode, roleVars, startedAt, scoreVars, clientVars>>

RemovePlayer ==
  \E playerId \in 1 .. nextId :
    removePlayer("removePlayer", playerId) /\ Forward /\ UNCHANGED <<testMode, roleVars, startedAt, scoreVars, clientVars>>

UpdatePlayerConnection ==
  \E playerId \in 1 .. nextId, isConnected \in BOOLEAN :
    updatePlayerConnection(playerId, isConnected) /\ Forward /\ UNCHANGED <<testMode, roleVars, startedAt, scoreVars, clientVars>>

AddSubmission ==
  \E playerId \in 1 .. nextId, roundNumber \in Rounds :
    /\ addSubmission(playerId, roundNumber)
    /\ TotalSubmissions(submissions') <= MaxSubmissions
    /\ Forward /\ UNCHANGED <<testMode, roleVars, startedAt, scoreVars, clientVars>>

AddVote ==
  \E voterId \in 1 .. nextId, targetPlayerId \in 1 .. nextId, predictedRole \in PlayerRole :
    /\ addVote(voterId, targetPlayerId, predictedRole)
    /\ Len(votes') <= MaxVotes
    /\ Forward /\ UNCHANGED <<testMode, roleVars, startedAt, scoreVars, clientVars>>

Reset == reset("reset", <<>>) /\ ClearsStartedAt /\ Forward /\ UNCHANGED <<testMode, roleVars, scoreVars, clientVars>>

AdminResetGame ==
  \E adminId \in 1 .. nextId : adminResetGame(adminId) /\ ClearsStartedAt /\ Forward /\ UNCHANGED <<testMode, roleVars, scoreVars, clientVars>>

AdminDestroyGame ==
  \E adminId \in 1 .. nextId : adminDestroyGame(adminId) /\ ClearsStartedAt /\ Forward /\ UNCHANGED <<testMode, roleVars, scoreVars, clientVars>>

AdminAssignRole ==
  \E adminId \in 1 .. nextId, targetPlayerId \in 1 .. nextId, role \in PlayerRole :
    adminAssignRole(adminId, targetPlayerId, role) /\ Forward /\ UNCHANGED <<testMode, roleVars, startedAt, scoreVars, clientVars>>

AdminKickPlayer ==
  \E adminId \in 1 .. nextId, targetPlayerId \in 1 .. nextId :
    adminKickPlayer(adminId, targetPlayerId) /\ Forward /\ UNCHANGED <<testMode, roleVars, startedAt, scoreVars, clientVars>>

PerformBackup == performBackup /\ UNCHANGED <<testMode, roleVars, startedAt, scoreVars, streams, clientVars>>

Next ==
  \/ AddPlayer
  \/ AddNewPlayer
  \/ RemovePlayer
  \/ UpdatePlayerConnection
  \/ AddSubmission
  \/ AddVote
  \/ Reset
  \/ AdminResetGame
  \/ AdminDestroyGame
  \/ AdminAssignRole
  \/ AdminKickPlayer
  \/ PerformBackup
  \/ StartGame
  \/ AdvancePhase
  \/ TimerFires
  \/ AdminForceStart
  \/ AdminAdvancePhase
  \/ AdminSkipPhase
  \/ AdminSetTimer

Spec == Init /\ [][Next]_vars

\* joins, leaves, kicks, resets and the store's backup
NextRoster ==
  \/ AddPlayer
  \/ RemovePlayer
  \/ AdminKickPlayer
  \/ Reset
  \/ PerformBackup

SpecRoster == Init /\ [][NextRoster]_vars

\* joins with any token, start, forced start and reset
NextStart ==
  \/ AddPlayer
  \/ StartGame
  \/ AdminForceStart
  \/ Reset

SpecStart == Init /\ [][NextStart]_vars

\* the phase machine and its timer
NextPhases ==
  \/ AddNewPlayer
  \/ StartGame
  \/ AdminForceStart
  \/ AdvancePhase
  \/ AdminAdvancePhase
  \/ AdminSkipPhase
  \/ AdminSetTimer
  \/ TimerFires
  \/ RemovePlayer
  \/ Reset

SpecPhases == Init /\ [][NextPhases]_vars

\* a game with submissions, moved through its phases by advancePhase and by
\* the timers it arms (addSubmission reads no role)
NextSubmit ==
  \/ AddNewPlayer
  \/ AdvancePhase
  \/ TimerFires
  \/ AddSubmission
  \/ Reset

SpecSubmit == Init /\ [][NextSubmit]_vars

\* a game with votes, moved through its phases by advancePhase and by the
\* timers it arms (addVote reads no role)
NextVote ==
  \/ AddNewPlayer
  \/ AdvancePhase
  \/ TimerFires
  \/ AddVote
  \/ RemovePlayer
  \/ Reset

SpecVote == Init /\ [][NextVote]_vars

\* the role assignment of startGame and adminForceStart on its own: Init draws
\* the playerIds argument, the action applies the assignment function
RoleInputs == {[i \in 1 .. n |-> i] : n \in 1 .. MaxRoleCount}

InitRoles == InitSession /\ roleIds \in RoleInputs

AssignRoles ==
  /\ ret.op = "init"
  /\ IF RoleAssignmentThrows(roleIds)
     THEN /\ roleResult' = NoAssignment
          /\ ret' = Ret("assignRoles", FALSE, NoId)
     ELSE /\ roleResult' \in RoleAssignments(roleIds)
          /\ ret' = Ret("assignRoles", TRUE, NoId)
  /\ UNCHANGED <<testMode, gameVars, timerVars, storeVars, nextId, events, roleIds,
                 startedAt, scoreVars, streams, clientVars>>

NextRoles == AssignRoles

SpecRoles == InitRoles /\ [][NextRoles]_vars

\* ================================================================ claims
\* ------------------------------------------------------------------- C1
C1_HasSubmission(playerId, roundNumber) ==
  \E i \in 1 .. Len(submissions[roundNumber]) : submissions[roundNumber][i] = playerId

C1_OnePerPair ==
  \A r \in Rounds : \A i, j \in 1 .. Len(submissions[r]) :
    submissions[r][i] = submissions[r][j] => i = j

C1_DuplicateRejected ==
  ret'.op = "addSubmission" =>
    \A playerId \in Ids, roundNumber \in Rounds :
      (C1_HasSubmission(playerId, roundNumber) /\ addSubmission(playerId, roundNumber))
        => (~ret'.ok /\ submissions' = submissions)

\* C1: the submissions of a round never hold two entries of the same player,
\* and addSubmission for a (playerId, roundNumber) pair that already has a
\* submission returns false and leaves the submissions as they were.
C1_OneSubmissionPerPlayerRound == []C1_OnePerPair /\ [][C1_DuplicateRejected]_vars

\* a player who has submitted in the running round was just turned away
C1_Witness ==
  /\ ret = Ret("addSubmission", FALSE, NoId)
  /\ \E r \in Rounds :
       /\ isValidSubmissionPhase(r)
       /\ \A i \in 1 .. Len(players) : C1_HasSubmission(players[i].id, r)
       /\ Len(players) > 0

\* ------------------------------------------------------------------- C2
\* the predicted roles the array vs stores for the pair
C2_RolesOf(vs, voterId, targetPlayerId) ==
  {vs[i].predictedRole :
     i \in {j \in 1 .. Len(vs) : /\ vs[j].voterId = voterId
                                 /\ vs[j].targetPlayerId = targetPlayerId}}

C2_OnePerPair ==
  /\ \A i, j \in 1 .. Len(votes) :
       (/\ votes[i].voterId = votes[j].voterId
        /\ votes[i].targetPlayerId = votes[j].targetPlayerId) => i = j
  /\ \A i \in 1 .. Len(votes) : votes[i].voterId # votes[i].targetPlayerId

C2_LatestRoleKept ==
  \A voterId \in Ids, targetPlayerId \in Ids :
    /\ ret' = Ret("addVote", TRUE, NoId) =>
         \A predictedRole \in PlayerRole :
           addVote(voterId, targetPlayerId, predictedRole)
             => C2_RolesOf(votes', voterId, targetPlayerId) = {predictedRole}
    /\ C2_RolesOf(votes', voterId, targetPlayerId)
         # C2_RolesOf(votes, voterId, targetPlayerId)
       => \/ votes' = <<>>
          \/ \E predictedRole \in PlayerRole :
               addVote(voterId, targetPlayerId, predictedRole) /\ ret'.ok

\* C2: the votes never hold two entries of the same (voterId, targetPlayerId)
\* pair nor a vote whose voter is its target; an accepted addVote leaves the
\* pair with the role it was called with, and the role stored for a pair
\* changes only by an accepted addVote for that pair or by clearing the votes.
C2_OneVotePerPairLatestRole == []C2_OnePerPair /\ [][C2_LatestRoleKept]_vars

\* two participants have voted on each other and a vote was just accepted
C2_Witness ==
  /\ ret = Ret("addVote", TRUE, NoId)
  /\ currentPhase = "voting"
  /\ Len(votes) = 2
  /\ votes[1].voterId = votes[2].targetPlayerId
  /\ votes[2].voterId = votes[1].targetPlayerId

\* ------------------------------------------------------------------- C3
\* the number of participants (roster entries and the admin) with this id
C3_Entries(ps, admin, pid) ==
  CountId(ps, pid) + (IF admin # NoPlayer /\ admin.id = pid THEN 1 ELSE 0)

C3_RejoinStep ==
  \A name \in Names, asAdmin \in BOOLEAN, existingPlayerId \in Ids :
    (/\ currentPhase = "lobby"
     /\ RestoresSession(name, existingPlayerId)
     /\ addPlayer(name, asAdmin, existingPlayerId, nextId + 1))
      => /\ ret' = Ret("addPlayer", TRUE, existingPlayerId)
         /\ C3_Entries(players', adminPlayer', existingPlayerId) = 1

\* C3: a join in the lobby that presents a token with a live session and the
\* name of that session returns the token's id and leaves exactly one
\* participant with that id.
C3_RejoinIdempotent == [][C3_RejoinStep]_vars

\* ------------------------------------------------------------------- C4
\* C4: no two entries of the roster have the same id.
C4_RosterIdsUnique ==
  \A i, j \in 1 .. Len(players) : players[i].id = players[j].id => i = j

\* ------------------------------------------------------------------- C5
\* C5: the id of the admin is not the id of any roster entry.
C5_AdminNotInRoster ==
  adminPlayer # NoPlayer => adminPlayer.id \notin PlayerIdsOf(players)

\* ------------------------------------------------------------------- C6
\* the roster entries followed by the admin
C6_Participants ==
  players \o (IF adminPlayer # NoPlayer THEN <<adminPlayer>> ELSE <<>>)

\* C6: no two participants with different ids have names that are equal
\* ignoring case.
C6_NamesUnique ==
  \A i, j \in 1 .. Len(C6_Participants) :
    C6_Participants[i].id # C6_Participants[j].id
      => toLowerCase(C6_Participants[i].name) # toLowerCase(C6_Participants[j].name)

\* ------------------------------------------------------------------- C7
\* the number of ids the assignment gives the role r
C7_Count(r) == Cardinality({id \in DOMAIN roleResult : roleResult[id] = r})

\* the distributions configured for n participants
C7_Configured(n) ==
  IF testMode THEN getTestRoleDistribution(n) ELSE {getRoleDistribution(n)}

\* C7: after a role assignment for a participant count that has a configured
\* distribution, every participant holds one role of human, ai_user and troll
\* and the number of holders of each role is the configured one.
C7_RolesMatchDistribution ==
  (ret = Ret("assignRoles", TRUE, NoId)
     /\ (testMode \/ ~DistributionThrows(Len(roleIds))))
    => /\ DOMAIN roleResult = Range(roleIds)
       /\ \A id \in DOMAIN roleResult : roleResult[id] \in PlayerRole
       /\ \E d \in C7_Configured(Len(roleIds)) :
            /\ C7_Count("human") = d.human
            /\ C7_Count("ai_user") = d.ai_user
            /\ C7_Count("troll") = d.troll

\* ------------------------------------------------------------------- C8
\* a step of advancePhase, called directly, by the admin or by the timer
C8_Advance == AdvancePhase \/ AdminAdvancePhase \/ AdminSkipPhase \/ TimerFires

C8_AdvanceStep ==
  C8_Advance =>
    /\ ret'.ok => /\ currentPhase # "finished"
                  /\ currentPhase' = phaseOrder[IndexOfPhase(currentPhase) + 1]
    /\ ~ret'.ok => currentPhase' = currentPhase
    /\ currentPhase = "finished"
         => /\ ~ret'.ok
            /\ UNCHANGED <<gameVars, storeVars>>
            /\ ret'.op # "timer" => UNCHANGED timerVars

\* C8: an advance that succeeds moves the phase to its immediate successor,
\* one that fails leaves the phase, and from finished every advance fails and
\* changes nothing (an expiring timer only leaves the pending ones).
C8_AdvanceToSuccessor == [][C8_AdvanceStep]_vars

\* ------------------------------------------------------------------- C9
C9_TimedPhases == Phases \ {"lobby", "finished"}

\* C9: in role_reveal, the rounds, voting and results exactly one phase timer
\* is pending, and in no phase more than one.
C9_OneTimerPending ==
  /\ currentPhase \in C9_TimedPhases => pendingTimers = 1
  /\ pendingTimers <= 1

\* ------------------------------------------------------------------ C10
\* what a successful start leaves, and what a failed one leaves
C10_Effect ==
  /\ ret'.ok => /\ currentPhase' = "role_reveal"
                /\ phaseTimer' = "pending"
                /\ pendingTimers' = 1
                /\ phaseEndTime'
  /\ ~ret'.ok => UNCHANGED <<gameVars, timerVars, storeVars>>

C10_StartStep ==
  StartGame =>
    /\ ret'.ok <=> /\ currentPhase = "lobby"
                   /\ Len(players) >= MinPlayers
                   /\ ~RoleAssignmentThrows(allPlayerIds)
    /\ C10_Effect

C10_ForceStartStep ==
  \A adminId \in Ids :
    adminForceStart(adminId) =>
      /\ ret'.ok <=> /\ currentPhase = "lobby"
                     /\ isAdmin(adminId)
                     /\ Len(players) >= 1
                     /\ ~RoleAssignmentThrows(allPlayerIds)
      /\ C10_Effect

C10_ForceStartAnyCount ==
  \A adminId \in Ids :
    (adminForceStart(adminId) /\ currentPhase = "lobby" /\ isAdmin(adminId))
      => ret'.ok

NextAdmin ==
  \/ AddNewPlayer
  \/ StartGame
  \/ AdvancePhase
  \/ Reset
  \/ AdminForceStart
  \/ AdminAdvancePhase
  \/ AdminSkipPhase
  \/ AdminSetTimer
  \/ AdminAssignRole
  \/ AdminKickPlayer
  \/ AdminResetGame
  \/ AdminDestroyGame

SpecAdmin == Init /\ [][NextAdmin]_vars

\* ------------------------------------------------------------------ C11
\* the step is an administrative operation called by callerId
C11_AdminOperation(callerId) ==
  \/ adminForceStart(callerId)
  \/ adminAdvancePhase(callerId)
  \/ adminSkipPhase(callerId)
  \/ adminSetTimer(callerId)
  \/ adminResetGame(callerId)
  \/ adminDestroyGame(callerId)
  \/ \E targetPlayerId \in Ids :
       \/ adminKickPlayer(callerId, targetPlayerId)
       \/ \E role \in PlayerRole : adminAssignRole(callerId, targetPlayerId, role)

C11_NonAdminRejected ==
  \A callerId \in Ids :
    (~isAdmin(callerId) /\ C11_AdminOperation(callerId))
      => /\ ~ret'.ok
         /\ events' = <<>>
         /\ UNCHANGED <<gameVars, timerVars, storeVars>>

\* a start, advance or reset command that takes effect while the session has
\* no admin was given by a caller who is not the admin
C11_CommandNeedsAdmin ==
  ((StartGame \/ AdvancePhase \/ Reset) /\ ret'.ok) => adminPlayer # NoPlayer

\* C11: an administrative operation called with an id that is not the admin's
\* is rejected and changes nothing, and no command starts, advances or resets
\* the session for a caller who is not the admin.
C11_OnlyAdminCommands == [][C11_NonAdminRejected /\ C11_CommandNeedsAdmin]_vars

\* ------------------------------------------------------------------ C12
\* a call of an operation that came back rejected (the firing of the phase
\* timer is not a call: the fired timer is gone whatever advancePhase returns)
C12_Rejected == ~ret'.ok /\ ret'.op # "timer"

C12_Untouched ==
  /\ UNCHANGED <<currentPhase, players, adminPlayer, submissions, votes>>
  /\ UNCHANGED <<phaseTimer, pendingTimers, phaseEndTime>>
  /\ events' = <<>>

\* C12: an operation that returns rejected (false or null) leaves the phase,
\* the roster, the admin slot, the submissions, the votes, the pending phase
\* timer and phaseEndTime as they were and emits no notification.
C12_RejectedLeavesNoTrace == [][C12_Rejected => C12_Untouched]_vars

\* ------------------------------------------------------------------ C13
\* games in which players disconnect, reconnect, leave and are kicked
NextLeave == \/ AddNewPlayer \/ StartGame \/ AdminForceStart \/ AdvancePhase
  \/ TimerFires \/ UpdatePlayerConnection \/ RemovePlayer \/ AdminKickPlayer \/ Reset
SpecLeave == Init /\ [][NextLeave]_vars

C13_Connected(ps) == Cardinality({i \in 1 .. Len(ps) : ps[i].isConnected})

\* a leave (or kick) has removed a regular player outside lobby and fewer than
\* minPlayers connected players remain
C13_LeftTooFew ==
  /\ ret'.op \in {"removePlayer", "adminKickPlayer"}
  /\ ret'.ok
  /\ currentPhase # "lobby"
  /\ Len(players') = Len(players) - 1
  /\ C13_Connected(players') < MinPlayers

C13_Ended ==
  /\ currentPhase' = "finished"
  /\ phaseTimer' = "null"
  /\ pendingTimers' = 0
  /\ events' = <<"player_left", "game_ended">>

\* C13: when a leave removes a regular player while the phase is not lobby and
\* fewer than minPlayers connected players remain, the session is forced to
\* finished, the phase timer is cancelled and the insufficient-players
\* notification is emitted.
C13_LeaveEndsGame == [][C13_LeftTooFew => C13_Ended]_vars

\* a test-mode game of two lost its connected player while the one who stays
\* was disconnected, and ended for it
C13_Witness ==
  /\ ret.op = "removePlayer"
  /\ ret.ok
  /\ testMode
  /\ Len(players) = 1
  /\ C13_Connected(players) = 0
  /\ currentPhase = "finished"
  /\ events = <<"player_left", "game_ended">>
  /\ pendingTimers = 0

\* ------------------------------------------------------------------ C14
\* the admin kicks itself: rejected, nothing changes
C14_SelfKick ==
  \A adminId \in Ids :
    (isAdmin(adminId) /\ adminKickPlayer(adminId, adminId))
      => (~ret'.ok /\ events' = <<>> /\ UNCHANGED <<gameVars, timerVars, storeVars>>)

C14_PlayerLeft(es) == Cardinality({i \in 1 .. Len(es) : es[i] = "player_left"})

\* the admin kicks another id that is in the roster: one entry less, and one
\* player_left
C14_KickOneEntry ==
  \A adminId \in Ids, targetPlayerId \in Ids :
    ( /\ isAdmin(adminId)
      /\ targetPlayerId # adminId
      /\ targetPlayerId \in PlayerIdsOf(players)
      /\ adminKickPlayer(adminId, targetPlayerId) )
      => /\ ret'.ok
         /\ Len(players') = Len(players) - 1
         /\ CountId(players', targetPlayerId) = CountId(players, targetPlayerId) - 1
         /\ \A id \in Ids \ {targetPlayerId} : CountId(players', id) = CountId(players, id)
         /\ C14_PlayerLeft(events') = 1

\* the player kicked is no longer in the roster
C14_KickedIsGone ==
  \A adminId \in Ids, targetPlayerId \in Ids :
    ( /\ isAdmin(adminId)
      /\ targetPlayerId # adminId
      /\ targetPlayerId \in PlayerIdsOf(players)
      /\ adminKickPlayer(adminId, targetPlayerId) )
      => targetPlayerId \notin PlayerIdsOf(players')

C14_KickStep ==
  ret'.op = "adminKickPlayer" => (C14_SelfKick /\ C14_KickOneEntry /\ C14_KickedIsGone)

\* C14: a kick by the admin of the admin's own id is rejected with no state
\* change; a kick of another roster player removes exactly that player, the
\* roster size decreasing by exactly one, and emits one player_left.
C14_KickRemovesThatPlayer == [][C14_KickStep]_vars

\* ------------------------------------------------------------------ C15
\* joins and rejoins into rosters of up to one entry more than the test
\* configuration admits, with leaves, resets and the store's backup
AddPlayerToFull == JoinUpTo({"alice", "bob"}, 0 .. nextId, TEST_MAX_PLAYERS + 1)
NextCapacity == \/ AddPlayerToFull \/ RemovePlayer \/ Reset \/ PerformBackup
SpecCapacity == Init /\ [][NextCapacity]_vars

\* a regular join into a roster that already holds maxPlayers entries
C15_JoinWhenFull ==
  /\ ret'.op = "addPlayer"
  /\ Len(players) >= MaxPlayers
  /\ adminPlayer' = adminPlayer

\* C15: the roster never holds more than maxPlayers regular players, and a
\* regular join when maxPlayers is reached is rejected.
C15_RosterWithinCapacity ==
  /\ [](Len(players) <= MaxPlayers)
  /\ [][C15_JoinWhenFull => (~ret'.ok \/ players' = players)]_vars

\* ----------------------------------------------------------------- scoring
\* POINTS_CONFIG
CORRECT_GUESS == 100
ROLE_HIDDEN_BONUS == 50
PARTICIPATION_BONUS == 25
ACCURACY_MULTIPLIER == 2

\* Math.round of the quotient num / den of two naturals, den > 0: the nearest
\* integer, a half going up
MathRound(num, den) == (2 * num + den) \div (2 * den)

\* a quotient kept exact; accuracy is correctGuesses / totalVotes, or 0
Quotient(num, den) == [num |-> num, den |-> den]
Greater(a, b) == a.num * b.den > b.num * a.den

\* the roleCounts / timesGuessedAs record of the votes that target playerId
roleCounts(playerId) ==
  [role \in PlayerRole |->
     Cardinality({k \in 1 .. Len(votes) :
                    /\ votes[k].targetPlayerId = playerId
                    /\ votes[k].predictedRole = role})]

\* the reduce with count >= max.count: among equal tallies the last entry wins
RECURSIVE reduceMostVotedLast(_, _, _)
reduceMostVotedLast(counts, i, max) ==
  IF i > Len(RoleOrder) THEN max
  ELSE reduceMostVotedLast(counts, i + 1,
         IF counts[RoleOrder[i]] >= max.count
         THEN [role |-> RoleOrder[i], count |-> counts[RoleOrder[i]]]
         ELSE max)

\* Object.entries(roleCounts).reduce(...) of calculateVotingResults, from entry i on
RECURSIVE reduceMostVoted(_, _, _)
reduceMostVoted(counts, i, max) ==
  IF i > Len(RoleOrder) THEN max
  ELSE reduceMostVoted(counts, i + 1,
         IF counts[RoleOrder[i]] > max.count
         THEN [role |-> RoleOrder[i], count |-> counts[RoleOrder[i]]]
         ELSE max)

mostVotedRole(counts) == reduceMostVoted(counts, 1, [role |-> "human", count |-> 0]).role

\* GameManager.calculateVotingResults
calculateVotingResults ==
  [i \in 1 .. Len(players) |->
     LET player == players[i]
         counts == roleCounts(player.id)
         totalVotes == counts["human"] + counts["ai_user"] + counts["troll"]
     IN [playerId |-> player.id,
         playerName |-> player.name,
         actualRole |-> player.role,
         votes |-> [role \in PlayerRole |->
                      [count |-> counts[role],
                       percentage |-> IF totalVotes > 0
                                      THEN MathRound(counts[role] * 100, totalVotes)
                                      ELSE 0]],
         mostVotedRole |-> mostVotedRole(counts),
         correctGuesses |-> counts[player.role]]]

\* GameManager.calculatePlayerScores
calculatePlayerScores(votingResults) ==
  [i \in 1 .. Len(players) |->
     LET player == players[i]
         playerVotes == {k \in 1 .. Len(votes) : votes[k].voterId = player.id}
         \* players.find(p => p.id === vote.targetPlayerId): the roster only
         hit(k) == /\ findIndex(votes[k].targetPlayerId) # 0
                   /\ players[findIndex(votes[k].targetPlayerId)].role
                        = votes[k].predictedRole
         correctGuesses == Cardinality({k \in playerVotes : hit(k)})
         totalVotes == Cardinality(playerVotes)
         accuracy == IF totalVotes > 0 THEN Quotient(correctGuesses, totalVotes)
                     ELSE Quotient(0, 1)
         votingResult == votingResults[findIndex(player.id)]
         wasGuessedCorrectly == votingResult.mostVotedRole = player.role
         points == correctGuesses * CORRECT_GUESS
                   + (IF ~wasGuessedCorrectly THEN ROLE_HIDDEN_BONUS ELSE 0)
                   + PARTICIPATION_BONUS
     IN [playerId |-> player.id,
         playerName |-> player.name,
         role |-> player.role,
         correctGuesses |-> correctGuesses,
         totalVotes |-> totalVotes,
         accuracy |-> accuracy,
         points |-> MathRound(points * (accuracy.den + accuracy.num * ACCURACY_MULTIPLIER),
                              accuracy.den),
         wasGuessedCorrectly |-> wasGuessedCorrectly,
         timesGuessedAs |-> roleCounts(player.id)]]

\* finalScores.reduce((sum, score) => sum + score.accuracy, 0), from entry i on
RECURSIVE sumAccuracy(_, _)
sumAccuracy(finalScores, i) ==
  IF i > Len(finalScores) THEN Quotient(0, 1)
  ELSE LET a == finalScores[i].accuracy
           rest == sumAccuracy(finalScores, i + 1)
       IN Quotient(a.num * rest.den + rest.num * a.den, a.den * rest.den)

\* reduce((best, player) => player.accuracy > best.accuracy ? player : best, best)
RECURSIVE reduceMostAccurate(_, _, _)
reduceMostAccurate(scores, i, best) ==
  IF i > Len(scores) THEN best
  ELSE reduceMostAccurate(scores, i + 1,
         IF Greater(scores[i].accuracy, best.accuracy) THEN scores[i] ELSE best)

\* reduce((best, player) => player.points > best.points ? player : best, best)
RECURSIVE reduceMostPoints(_, _, _)
reduceMostPoints(scores, i, best) ==
  IF i > Len(scores) THEN best
  ELSE reduceMostPoints(scores, i + 1,
         IF scores[i].points > best.points THEN scores[i] ELSE best)

\* GameManager.calculateGameStats, called when the clock shows time
calculateGameStats(finalScores, time) ==
  LET totalPlayers == Len(players)
      sum == sumAccuracy(finalScores, 1)
      hidden == SelectSeq(finalScores, LAMBDA p : ~p.wasGuessedCorrectly)
  IN [totalPlayers |-> totalPlayers,
      gameDuration |-> IF startedAt # NoTime THEN MathRound(time - startedAt, 2) ELSE 0,
      averageAccuracy |-> IF totalPlayers = 0 THEN "NaN"
                          ELSE MathRound(sum.num * 100, sum.den * totalPlayers),
      mostAccuratePlayer |->
        IF totalPlayers = 0 THEN ""
        ELSE reduceMostAccurate(finalScores, 1, finalScores[1]).playerName,
      bestHiddenRole |->
        IF totalPlayers = 0 THEN ""
        ELSE reduceMostPoints(hidden, 1,
               IF Len(hidden) > 0 THEN hidden[1] ELSE finalScores[1]).playerName]

\* GameManager.calculateResults, called when the clock shows time
calculateResults(time) ==
  LET votingResults == calculateVotingResults
      finalScores == calculatePlayerScores(votingResults)
  IN [finalScores |-> finalScores,
      votingResults |-> votingResults,
      roundSubmissions |-> submissions,
      gameStats |-> calculateGameStats(finalScores, time)]

\* GET /api/game-state in the results phase: the response carries
\* calculateResults()
CalculateResults ==
  /\ currentPhase = "results"
  /\ results' = calculateResults(now)
  /\ ret' = Ret("calculateResults", TRUE, NoId)
  /\ events' = <<>>
  /\ UNCHANGED <<testMode, gameVars, timerVars, storeVars, nextId, roleVars,
                 startedAt, now, streams, clientVars>>

\* half a minute passes
Tick ==
  /\ now < MaxNow
  /\ now' = now + 1
  /\ UNCHANGED <<testMode, gameVars, timerVars, storeVars, nextId, ret, events,
                 roleVars, startedAt, results, streams, clientVars>>

\* ------------------------------------------- the sessions that are scored
ScoreNames == <<"alice", "bob", "carol", "dave", "erin">>

\* the participants with ids 1 .. m, the admin last when there is one, as
\* startGame leaves them: every one with the role roleAssignments gives it
ScoredPlayers(n, roleAssignments) ==
  [i \in 1 .. n |-> [id |-> i, name |-> ScoreNames[i], role |-> roleAssignments[i],
                     isConnected |-> TRUE]]
ScoredAdmin(n, roleAssignments) ==
  [id |-> n + 1, name |-> ScoreNames[n + 1], role |-> roleAssignments[n + 1],
   isConnected |-> TRUE]

\* the pairs (voter, target) of m participants with ids 1 .. m, voter first
VotePairs(m) ==
  [k \in 1 .. m * (m - 1) |->
     LET voterId == ((k - 1) \div (m - 1)) + 1
         t == ((k - 1) % (m - 1)) + 1
     IN <<voterId, IF t >= voterId THEN t + 1 ELSE t>>]

\* the vote arrays of at most n votes over pairs[i ..], one vote a pair at
\* most, as addVote keeps them
RECURSIVE VoteArrays(_, _, _)
VoteArrays(pairs, i, n) ==
  IF n = 0 \/ i > Len(pairs) THEN {<<>>}
  ELSE {<<>>} \cup UNION {
         {<<[voterId |-> pairs[j][1], targetPlayerId |-> pairs[j][2],
             predictedRole |-> role]>> \o rest : rest \in VoteArrays(pairs, j + 1, n - 1)} :
         j \in i .. Len(pairs), role \in PlayerRole}

\* a session of the test configuration in its results phase: maxP players at
\* most, an admin or none, maxV votes at most, started by startGame (at time
\* 0) or by advancePhase alone (startedAt null).  The store plays no part in
\* the scoring.
ScoredSession(maxP, maxV) ==
  /\ testMode = TRUE
  /\ currentPhase = "results"
  /\ phaseEndTime = TRUE
  /\ \E n \in 1 .. maxP, withAdmin \in BOOLEAN :
       LET m == IF withAdmin THEN n + 1 ELSE n
           ids == [i \in 1 .. m |-> i]
       IN /\ ~RoleAssignmentThrows(ids)
          /\ \E roleAssignments \in RoleAssignments(ids) :
               /\ players = ScoredPlayers(n, roleAssignments)
               /\ adminPlayer = IF withAdmin THEN ScoredAdmin(n, roleAssignments)
                                ELSE NoPlayer
          /\ votes \in VoteArrays(VotePairs(m), 1, maxV)
  /\ submissions = [r \in Rounds |-> <<>>]
  /\ phaseTimer = "pending"
  /\ pendingTimers = 1
  /\ roomExists = FALSE
  /\ sessions = EmptySessions
  /\ playerSessions = {}
  /\ savedPhase = "none"
  /\ checksumValid = TRUE
  /\ backup = NoBackup
  /\ nextId = 0
  /\ ret = Ret("init", TRUE, NoId)
  /\ events = <<>>
  /\ roleIds = <<>>
  /\ roleResult = NoAssignment
  /\ startedAt \in {NoTime, 0}
  /\ now = 0
  /\ results = NoResults
  /\ InitPeers

\* the scores of sessions of up to MaxScorePlayers players and MaxScoreVotes votes
InitScore == ScoredSession(MaxScorePlayers, MaxScoreVotes) /\ startedAt = 0
NextScore == CalculateResults
SpecScore == InitScore /\ [][NextScore]_vars

\* results asked for again and again while the clock runs
InitResults == ScoredSession(MaxResultsPlayers, MaxResultsVotes)
NextResults == CalculateResults \/ Tick
SpecResults == InitResults /\ [][NextResults]_vars

\* ------------------------------------------------------------------ C16
\* In SpecResults nothing writes the submissions, the votes or the roster, so
\* every calculateResults() after the first sees the sets the earlier one saw.
C16_SecondCall == CalculateResults /\ results # NoResults

\* C16: calculateResults modifies neither the submissions, the votes, the
\* roster nor the phase, and a second call with unchanged sets returns what
\* the first returned, the game statistics included.
C16_ResultsRepeatable ==
  [][/\ CalculateResults => UNCHANGED <<submissions, votes, players, currentPhase>>
     /\ C16_SecondCall => results' = results]_vars

\* ------------------------------------------------------------------ C17
\* the tally of the votes against a player that predict role
C17_Tally(playerId, role) ==
  Cardinality({k \in 1 .. Len(votes) :
                 votes[k].targetPlayerId = playerId /\ votes[k].predictedRole = role})

C17_Rank(role) == CHOOSE i \in 1 .. Len(RoleOrder) : RoleOrder[i] = role

\* the role with the highest tally against the player; among equal tallies
\* the first of human, ai_user, troll
C17_MostVoted(playerId) ==
  CHOOSE role \in PlayerRole :
    \A other \in PlayerRole :
      \/ C17_Tally(playerId, role) > C17_Tally(playerId, other)
      \/ /\ C17_Tally(playerId, role) = C17_Tally(playerId, other)
         /\ C17_Rank(role) <= C17_Rank(other)

\* k is num / den rounded to the nearest integer, a half going up
C17_Nearest(k, num, den) == -den < 2 * (k * den - num) /\ 2 * (k * den - num) <= den

C17_PointsOf(score) ==
  LET bonus == IF score.role # C17_MostVoted(score.playerId) THEN ROLE_HIDDEN_BONUS ELSE 0
      sum == score.correctGuesses * CORRECT_GUESS + bonus + PARTICIPATION_BONUS
  IN C17_Nearest(score.points,
                 sum * (score.accuracy.den + score.accuracy.num * ACCURACY_MULTIPLIER),
                 score.accuracy.den)

\* C17: every scored player's points are round((correctGuesses * CORRECT_GUESS
\* + HIDDEN_ROLE_BONUS if the player's role is not the most-voted role against
\* them + PARTICIPATION_BONUS) * (1 + accuracy * ACCURACY_MULTIPLIER)), the
\* most-voted role being the one with the highest tally, ties (no votes
\* included) broken in the order human, ai_user, troll.
C17_PointsFormula ==
  ret.op = "calculateResults" =>
    /\ Len(results.finalScores) = Len(players)
    /\ \A i \in 1 .. Len(players) :
         /\ results.finalScores[i].playerId = players[i].id
         /\ results.finalScores[i].role = players[i].role
         /\ C17_PointsOf(results.finalScores[i])

\* a player who is no human, against whom nobody voted, and who guessed one
\* of three targets: (100 + 50 + 25) * 5 / 3 rounds to 292
C17_Witness ==
  /\ ret.op = "calculateResults"
  /\ \E i \in 1 .. Len(players) :
       LET score == results.finalScores[i]
       IN /\ score.role # "human"
          /\ \A role \in PlayerRole : score.timesGuessedAs[role] = 0
          /\ score.totalVotes = 3
          /\ score.correctGuesses = 1
          /\ score.points = 292

\* ------------------------------------------------------------------ C18
\* the votes the player cast
C18_Cast(playerId) == {k \in 1 .. Len(votes) : votes[k].voterId = playerId}

\* those that predict the true role of their target, the admin being a target
\* like any other participant
C18_Correct(playerId) ==
  {k \in C18_Cast(playerId) :
     /\ getPlayer(votes[k].targetPlayerId) # NoPlayer
     /\ getPlayer(votes[k].targetPlayerId).role = votes[k].predictedRole}

C18_ScoreCounts(score) ==
  LET cast == Cardinality(C18_Cast(score.playerId))
      correct == Cardinality(C18_Correct(score.playerId))
  IN /\ score.correctGuesses = correct
     /\ IF cast = 0 THEN score.accuracy.num = 0
        ELSE score.accuracy.num * cast = correct * score.accuracy.den

\* C18: a scored player's correctGuesses is the number of votes the player cast
\* that predict the target's true role, for every target of the session, the
\* admin included, and the accuracy is correctGuesses over the votes cast (0
\* when none was cast).
C18_CorrectGuessesCounted ==
  ret.op = "calculateResults" =>
    \A i \in 1 .. Len(players) : C18_ScoreCounts(results.finalScores[i])

\* ------------------------------------------------- what clients are sent
\* GameManager.getPublicGameState: the roster without the role field, the
\* rest of gameState (the admin slot included) as it is
getPublicGameState ==
  [currentPhase |-> currentPhase,
   phaseEndTime |-> phaseEndTime,
   startedAt |-> startedAt,
   players |-> [i \in 1 .. Len(players) |->
                  [id |-> players[i].id, name |-> players[i].name,
                   isConnected |-> players[i].isConnected]],
   adminPlayer |-> adminPlayer]

\* GameManager.getPlayerRoleAssignments: the role of every roster id
getPlayerRoleAssignments ==
  [id \in PlayerIdsOf(players) |->
     players[LastIndex([i \in 1 .. Len(players) |-> players[i].id], id)].role]

\* the data of the game_started event startGame and adminForceStart emit
gameStartedData ==
  [gameState |-> getPublicGameState, roleAssignments |-> getPlayerRoleAssignments]

\* the data every open event stream is sent in this state: the game_state
\* snapshot a stream starts with, and the data of the events just emitted
eventListener ==
  {[gameState |-> getPublicGameState, roleAssignments |-> <<>>]}
    \cup (IF "game_started" \in Range(events) THEN {gameStartedData} ELSE {})

\* ------------------------------------------------------------------ C19
\* the participants whose role can be read in data
C19_RolesIn(data) ==
  DOMAIN data.roleAssignments
    \cup (IF data.gameState.adminPlayer # NoPlayer
          THEN {data.gameState.adminPlayer.id} ELSE {})
    \cup {data.gameState.players[i].id :
            i \in {j \in 1 .. Len(data.gameState.players) :
                     "role" \in DOMAIN data.gameState.players[j]}}

C19_RolesAssigned == Phases \ {"lobby", "results", "finished"}

\* C19: before the results phase nothing sent to a client reveals the role of
\* a participant other than the client itself.
C19_RolesStayPrivate ==
  currentPhase \in C19_RolesAssigned =>
    \A recipient \in PlayerIdsOf(players), data \in eventListener :
      C19_RolesIn(data) \subseteq {recipient}

\* ------------------------------------------------------------------ C20
\* a join leaves the sessions of all other clients in the store
C20_JoinKeepsSessions ==
  ret'.op = "addPlayer" =>
    \A pid \in Ids : (sessions[pid] # NoSession /\ roomExists) => sessions'[pid] # NoSession

\* C20: after every mutation of the store the room's checksum is the checksum
\* of its sessions and game state, so getOrCreateRoom never restores the room
\* from its backup nor empties it, and no session is lost.
C20_ChecksumCurrent ==
  /\ [](roomExists => checksumValid)
  /\ [][C20_JoinKeepsSessions]_vars

\* ------------------------------------------------ recovery from a backup
\* joins and leaves of clients without a token, between the periodic backups
NextBackup ==
  \/ AddNewPlayer
  \/ RemovePlayer
  \/ PerformBackup
  \/ Reset

SpecBackup == Init /\ [][NextBackup]_vars

\* a join that goes through getOrCreateRoom while the stored checksum of the
\* room does not match and a backup exists
C21_RestoringJoin(name, asAdmin) ==
  /\ roomExists /\ ~checksumValid /\ backup.present
  /\ addPlayer(name, asAdmin, NoId, nextId + 1)
  /\ ret'.ok

C21_BackedUp == {pid \in Ids : backup.sessionBackup[pid] # NoSession}

\* C21: when the stored checksum of a room does not match and a backup was
\* taken, the next getOrCreateRoom call puts the sessions of the most recent
\* backup back into the room: every session of that backup is in the room
\* afterwards, unchanged unless it is the session of the joining player.
C21_RestoredFromBackup ==
  [][\A name \in Names, asAdmin \in BOOLEAN :
       C21_RestoringJoin(name, asAdmin) =>
         \A pid \in C21_BackedUp :
           /\ sessions'[pid] # NoSession
           /\ pid # ret'.id => sessions'[pid] = backup.sessionBackup[pid]]_vars

\* a session that had left the room is back after the restoring join
C21_Witness ==
  /\ ret.op = "addPlayer" /\ ret.ok
  /\ backup.present
  /\ \E pid \in Ids :
       /\ pid # ret.id
       /\ pid \notin playerSessions
       /\ backup.sessionBackup[pid] # NoSession
       /\ sessions[pid] = backup.sessionBackup[pid]

\* ------------------------------------------------------ periodic cleanup
\* More than SESSION_TIMEOUT passes without a join or a connection update:
\* now - session.lastSeen exceeds the timeout for every session object, those
\* kept only by the backup included.
SessionTimeout ==
  LET expire(room) == [pid \in Ids |-> IF room[pid] = NoSession THEN NoSession
                                       ELSE [room[pid] EXCEPT !.active = FALSE]]
  IN
  /\ \E pid \in Ids : sessions[pid].active \/ backup.sessionBackup[pid].active
  /\ sessions' = expire(sessions)
  /\ backup' = [backup EXCEPT !.sessionBackup = expire(backup.sessionBackup)]
  /\ ret' = Ret("sessionTimeout", TRUE, NoId)
  /\ events' = <<>>
  /\ UNCHANGED <<gameVars, timerVars, roomExists, playerSessions, savedPhase,
                 checksumValid, nextId, testMode, roleVars, startedAt, scoreVars,
                 streams, clientVars>>

\* SessionManager.cleanup: every session whose lastSeen is older than
\* SESSION_TIMEOUT is deleted from the room and from playerSessions; a room
\* left without sessions is deleted when its lastActivity is older than
\* ROOM_TIMEOUT (roomIdle, which implies that every session has expired).
Cleanup ==
  \E roomIdle \in BOOLEAN :
    LET expiredSessions == {pid \in Ids : sessions[pid] # NoSession /\ ~sessions[pid].active}
        kept == [pid \in Ids |-> IF pid \in expiredSessions THEN NoSession ELSE sessions[pid]]
    IN
    /\ roomExists
    /\ roomIdle => \A pid \in Ids : ~sessions[pid].active
    /\ playerSessions' = playerSessions \ expiredSessions
    /\ IF roomIdle
       THEN /\ roomExists' = FALSE
            /\ sessions' = EmptySessions
            /\ savedPhase' = "none"
            /\ checksumValid' = TRUE
            /\ backup' = NoBackup
       ELSE /\ sessions' = kept
            /\ checksumValid' = (checksumValid /\ expiredSessions = {})
            /\ UNCHANGED <<roomExists, savedPhase, backup>>
    /\ ret' = Ret("cleanup", TRUE, NoId)
    /\ events' = <<>>
    /\ UNCHANGED <<gameVars, timerVars, nextId, testMode, roleVars, startedAt, scoreVars,
                   streams, clientVars>>

\* players join, a game is started and moved on, connections are reported,
\* time passes and the cleanup timer fires
NextCleanup ==
  \/ AddNewPlayer
  \/ StartGame
  \/ AdvancePhase
  \/ UpdatePlayerConnection
  \/ SessionTimeout
  \/ Cleanup
  \/ Reset

SpecCleanup == Init /\ [][NextCleanup]_vars

\* the ids of the players who are connected, the admin included
C22_Connected ==
  {players[i].id : i \in {j \in 1 .. Len(players) : players[j].isConnected}}
    \cup (IF adminPlayer # NoPlayer /\ adminPlayer.isConnected THEN {adminPlayer.id} ELSE {})

\* C22: while a game is in progress (the phase is neither lobby nor finished)
\* a run of the periodic cleanup leaves the session of every connected player
\* in the room, however long ago its last activity was recorded.
C22_ConnectedKeepSession ==
  [][(ret'.op = "cleanup" /\ currentPhase \notin {"lobby", "finished"}) =>
       \A pid \in C22_Connected :
         sessions[pid] # NoSession => sessions'[pid] # NoSession]_vars

\* ------------------------------------------------------- GET /api/events
\* start(controller): the game_state snapshot is enqueued, the listener is
\* registered and the heartbeat and timer intervals are set
OpenStream ==
  \E c \in 1 .. MaxStreams :
    LET opened == [listener |-> TRUE, writable |-> TRUE,
                   sent |-> <<[event |-> "game_state", data |-> getPublicGameState]>>,
                   failed |-> 0,
                   gameData |-> [currentPhase |-> currentPhase,
                                 players |-> [i \in 1 .. Len(players) |-> players[i].id]]]
    IN
    /\ \A b \in 1 .. c - 1 : b \in Streams /\ streams[b] # NoStream
    /\ IF c \in Streams
       THEN streams[c] = NoStream /\ streams' = [streams EXCEPT ![c] = opened]
       ELSE streams' = Append(streams, opened)
    /\ events' = <<>>
    /\ UNCHANGED <<testMode, gameVars, timerVars, storeVars, nextId, ret, roleVars,
                   startedAt, scoreVars, clientVars>>

\* the heartbeatInterval callback: sendEvent('heartbeat', ...), whose catch
\* swallows what enqueue throws; failed counts the heartbeats lost in a row
Heartbeat ==
  \E c \in Streams :
    /\ streams[c].listener
    /\ IF streams[c].writable
       THEN /\ Len(streams[c].sent) < MaxSent
            /\ streams' = [streams EXCEPT
                             ![c].sent = Append(@, [event |-> "heartbeat", data |-> <<>>]),
                             ![c].failed = 0]
       ELSE /\ streams[c].failed < MaxFailures
            /\ streams' = [streams EXCEPT ![c].failed = @ + 1]
    /\ events' = <<>>
    /\ UNCHANGED <<testMode, gameVars, timerVars, storeVars, nextId, ret, roleVars,
                   startedAt, scoreVars, clientVars>>

\* the timerInterval callback: a timer_update while a phase end time is set
TimerUpdate ==
  \E c \in Streams :
    /\ streams[c].listener /\ streams[c].writable
    /\ phaseEndTime
    /\ Len(streams[c].sent) < MaxSent
    /\ streams' = [streams EXCEPT
                     ![c].sent = Append(@, [event |-> "timer_update", data |-> <<>>])]
    /\ events' = <<>>
    /\ UNCHANGED <<testMode, gameVars, timerVars, storeVars, nextId, ret, roleVars,
                   startedAt, scoreVars, clientVars>>

\* the reader of the response cancels the stream without the request being
\* aborted: from here on controller.enqueue throws
StreamBreaks ==
  \E c \in Streams :
    /\ streams[c].listener /\ streams[c].writable
    /\ streams' = [streams EXCEPT ![c].writable = FALSE]
    /\ events' = <<>>
    /\ UNCHANGED <<testMode, gameVars, timerVars, storeVars, nextId, ret, roleVars,
                   startedAt, scoreVars, clientVars>>

\* the 'abort' listeners of request.signal: the listener is removed, both
\* intervals are cleared, the controller is closed; the model forgets the
\* request
Abort ==
  \E c \in Streams :
    /\ streams[c].listener
    /\ streams' = [streams EXCEPT ![c] = NoStream]
    /\ events' = <<>>
    /\ UNCHANGED <<testMode, gameVars, timerVars, storeVars, nextId, ret, roleVars,
                   startedAt, scoreVars, clientVars>>

\* clients open event streams while players join and leave and a game runs
NextStream ==
  \/ JoinWith({"alice"}, {NoId})
  \/ StartGame
  \/ RemovePlayer
  \/ OpenStream
  \/ Heartbeat
  \/ TimerUpdate
  \/ StreamBreaks
  \/ Abort

SpecStream == Init /\ [][NextStream]_vars

\* ------------------------------------------------------------------ C23
\* the orchestrator notifications among the messages of a stream
C23_Notifications(sent) ==
  SelectSeq(sent, LAMBDA m : m.event \notin {"game_state", "heartbeat", "timer_update"})

C23_Open(c) == streams[c].listener /\ streams[c].writable

\* a stream starts with the snapshot of the state at that moment
C23_SnapshotFirst ==
  \A c \in DOMAIN streams' :
    ((c \notin Streams \/ streams[c] = NoStream) /\ streams'[c] # NoStream) =>
      streams'[c].sent = <<[event |-> "game_state", data |-> getPublicGameState]>>

\* a step passes exactly the events it emits on to every open stream, in the
\* order of emission, after everything the stream was sent before
C23_EventsForwarded ==
  \A c \in Streams :
    (C23_Open(c) /\ streams'[c].listener /\ streams'[c].writable) =>
      /\ SubSeq(streams'[c].sent, 1, Len(streams[c].sent)) = streams[c].sent
      /\ C23_Notifications(streams'[c].sent)
           = C23_Notifications(streams[c].sent)
               \o [i \in 1 .. Len(events') |-> [event |-> events'[i], data |-> <<>>]]

\* C23: the first message of every event stream is a snapshot of the full
\* current state, and every notification the orchestrator emits while the
\* stream is open is delivered to it exactly once, in emission order.
C23_SnapshotThenEveryEvent ==
  /\ [](\A c \in Streams : C23_Open(c) => streams[c].sent[1].event = "game_state")
  /\ [][C23_SnapshotFirst /\ C23_EventsForwarded]_vars

\* a stream has been sent the two events of one call after its snapshot
C23_Witness ==
  \E c \in Streams :
    /\ C23_Open(c)
    /\ Len(events) = 2
    /\ Len(streams[c].sent) = 3
    /\ SubSeq(streams[c].sent, 2, 3) = [i \in 1 .. 2 |-> [event |-> events[i], data |-> <<>>]]

\* ------------------------------------------------------------------ C24
\* C24: a stream that has lost MaxFailures heartbeats in a row has been closed
\* by the server: its listener is removed and its intervals are cleared, so no
\* dead stream stays registered.
C24_DeadStreamClosed ==
  \A c \in Streams : streams[c].failed >= MaxFailures => ~streams[c].listener

\* ------------------------------ NetworkRecoveryManager: circuit breaker
\* breaker is circuitStates.get('polling'): state "absent" before the first
\* call creates it; cooled stands for Date.now() - lastFailure > recoveryTimeout
\* (lastFailure starts at 0); inFlight counts the calls awaiting operation(),
\* trials those of them that were let through a half-open circuit; last is
\* what the latest call met, trial whether that call was such a trial.

\* a gate that lets calls through while the circuit is open
admitsAlways(circuit) == FALSE

\* the circuit after the half-open transition: open and cooled down becomes
\* half-open with successes = 0
afterCooldown(circuit) ==
  IF circuit.state = "open" /\ circuit.cooled
  THEN [circuit EXCEPT !.state = "half-open", !.successes = 0]
  ELSE circuit

\* "Fail fast if circuit is open"
failsFast(circuit) == circuit.state = "open"

\* executeWithCircuitBreaker up to its await: the circuit is created on first
\* use, an open circuit past its cooldown turns half-open, an open circuit
\* throws, any other awaits operation()
ExecuteWithCircuitBreaker ==
  LET created == IF breaker.state = "absent"
                 THEN [state |-> "closed", failures |-> 0, successes |-> 0,
                       cooled |-> TRUE, inFlight |-> 0, trials |-> 0,
                       last |-> "none", trial |-> FALSE]
                 ELSE breaker
      circuit == afterCooldown(created)
  IN
  /\ IF failsFast(circuit)
     THEN breaker' = [circuit EXCEPT !.last = "blocked", !.trial = FALSE]
     ELSE /\ circuit.inFlight < MaxInFlight
          /\ breaker' = [circuit EXCEPT
                            !.inFlight = @ + 1, !.last = "admitted",
                            !.trial = (circuit.state = "half-open"),
                            !.trials = IF circuit.state = "half-open" THEN @ + 1 ELSE @]
  /\ UNCHANGED <<testMode, gameVars, timerVars, storeVars, nextId, ret, events,
                 roleVars, startedAt, scoreVars, streams, hook, offline, recovery>>

\* the call whose operation settles next is one of the trials or one of the
\* calls let through before
Resolving ==
  IF breaker.state = "absent" THEN {}
  ELSE {trial \in BOOLEAN : IF trial THEN breaker.trials > 0
                            ELSE breaker.inFlight > breaker.trials}

Resolved(trial, outcome) ==
  [breaker EXCEPT !.inFlight = @ - 1, !.last = outcome, !.trial = trial,
                  !.trials = IF trial THEN @ - 1 ELSE @]

\* operation() resolves: the try branch after the await
OperationSucceeds ==
  \E trial \in Resolving :
  /\ breaker' =
       LET circuit == Resolved(trial, "resolved")
       IN IF circuit.state = "half-open"
          THEN IF circuit.successes + 1 >= halfOpenSuccesses
               THEN [circuit EXCEPT !.successes = @ + 1, !.state = "closed", !.failures = 0]
               ELSE [circuit EXCEPT !.successes = @ + 1]
          ELSE IF circuit.state = "closed"
          THEN [circuit EXCEPT !.failures = IF @ > 0 THEN @ - 1 ELSE 0]
          ELSE circuit
  /\ UNCHANGED <<testMode, gameVars, timerVars, storeVars, nextId, ret, events,
                 roleVars, startedAt, scoreVars, streams, hook, offline, recovery>>

\* operation() rejects: the catch branch
OperationFails ==
  \E trial \in Resolving :
  /\ breaker.failures < MaxCircuitFailures
  /\ breaker' =
       LET circuit == [Resolved(trial, "rejected") EXCEPT
                         !.failures = @ + 1, !.cooled = FALSE]
       IN IF circuit.failures >= failureThreshold /\ circuit.state = "closed"
          THEN [circuit EXCEPT !.state = "open"]
          ELSE IF circuit.state = "half-open"
          THEN [circuit EXCEPT !.state = "open"]
          ELSE circuit
  /\ UNCHANGED <<testMode, gameVars, timerVars, storeVars, nextId, ret, events,
                 roleVars, startedAt, scoreVars, streams, hook, offline, recovery>>

\* more than recoveryTimeout passes after the last failure
CooldownElapses ==
  /\ breaker.state # "absent"
  /\ ~breaker.cooled
  /\ breaker' = [breaker EXCEPT !.cooled = TRUE, !.last = "none", !.trial = FALSE]
  /\ UNCHANGED <<testMode, gameVars, timerVars, storeVars, nextId, ret, events,
                 roleVars, startedAt, scoreVars, streams, hook, offline, recovery>>

\* resetCircuit, from the admin's network tools
ResetCircuit ==
  /\ breaker.state # "absent"
  /\ breaker' = [breaker EXCEPT !.state = "closed", !.failures = 0, !.successes = 0,
                                !.last = "none", !.trial = FALSE]
  /\ UNCHANGED <<testMode, gameVars, timerVars, storeVars, nextId, ret, events,
                 roleVars, startedAt, scoreVars, streams, hook, offline, recovery>>

NextBreaker ==
  \/ ExecuteWithCircuitBreaker
  \/ OperationSucceeds
  \/ OperationFails
  \/ CooldownElapses
  \/ ResetCircuit

SpecBreaker == Init /\ [][NextBreaker]_vars

\* ------------------------------------------------------------------ C25
\* a call arrives at the gate in this step
C25_Call == breaker' # breaker /\ breaker'.last \in {"blocked", "admitted"}

\* C25: a circuit whose failure count has reached failureThreshold is not
\* closed, and a call that finds the circuit open before the cooldown has
\* elapsed fails at once: the operation is not invoked and the circuit stays
\* open.
C25_OpensAndFailsFast ==
  /\ [](breaker.state = "closed" => breaker.failures < failureThreshold)
  /\ [][(C25_Call /\ breaker.state = "open" /\ ~breaker.cooled) =>
          /\ breaker'.last = "blocked"
          /\ breaker'.inFlight = breaker.inFlight
          /\ breaker'.state = "open"]_vars

\* a call has been turned away by a circuit that opened at the threshold
C25_Witness ==
  /\ breaker.state = "open" /\ ~breaker.cooled
  /\ breaker.failures = failureThreshold
  /\ breaker.last = "blocked"

\* ------------------------------------------------------------------ C26
\* the call that arrives in this step finds the circuit half-open (or open and
\* cooled down, which the call turns into half-open)
C26_CallWhileRecovering ==
  /\ C25_Call
  /\ \/ breaker.state = "half-open"
     \/ breaker.state = "open" /\ breaker.cooled

\* a trial call settles in this step while the circuit is half-open
C26_TrialSettles(outcome) ==
  /\ breaker.state = "half-open"
  /\ breaker' # breaker
  /\ breaker'.last = outcome /\ breaker'.trial

\* C26: once the cooldown of an open circuit has elapsed one trial call is
\* admitted; a call that arrives while a trial is in flight fails fast, a trial
\* that succeeds closes the circuit and a trial that fails opens it again.
C26_SingleTrial ==
  [][/\ C26_CallWhileRecovering =>
          breaker'.last = (IF breaker.trials = 0 THEN "admitted" ELSE "blocked")
     /\ C26_TrialSettles("resolved") => breaker'.state = "closed"
     /\ C26_TrialSettles("rejected") => breaker'.state = "open"]_vars

\* ------------------------------------------------- useGameEvents (client)
\* hook holds the refs of one mounted hook: es is the readyState of
\* eventSourceRef.current ("none" for null), sources the EventSource objects
\* created so far; current is pollingInterval.current (0 for null), live the
\* poll intervals that are set, handles the interval handles issued, adjusters
\* the intervalAdjuster intervals that are set, attached whether the current
\* handle carries its adjuster; numeric tells whether setInterval returns
\* numbers (a browser) or Timeout objects; last is the callback that ran last.

\* an adjuster that sets the new poll interval without clearing the old one
adjustKeeping(h) ==
  [h EXCEPT !.live = @ \cup {h.handles + 1}, !.current = h.handles + 1,
            !.handles = @ + 1, !.attached = FALSE]

\* startPolling: nothing while pollingInterval.current is set; otherwise the
\* poll interval and its adjuster are set, and the adjuster is stored on the
\* handle, which throws a TypeError when the handle is a number
startPolling(h) ==
  IF h.current # 0 THEN [hook |-> h, threw |-> FALSE]
  ELSE [hook |-> [h EXCEPT !.live = @ \cup {h.handles + 1},
                           !.current = h.handles + 1,
                           !.handles = @ + 1,
                           !.adjusters = @ + 1,
                           !.attached = ~h.numeric],
        threw |-> h.numeric]

\* stopPolling: clears pollingInterval.current and the adjuster found on it
stopPolling(h) ==
  IF h.current = 0 THEN h
  ELSE [h EXCEPT !.live = @ \ {h.current},
                 !.adjusters = IF h.attached THEN @ - 1 ELSE @,
                 !.current = 0,
                 !.attached = FALSE]

\* the intervalAdjuster callback: replaces the poll interval while one is set
adjust(h) ==
  [h EXCEPT !.live = (@ \ {h.current}) \cup {h.handles + 1},
            !.current = h.handles + 1,
            !.handles = @ + 1,
            !.attached = FALSE]

\* connect: nothing while the EventSource is open or the browser is offline;
\* otherwise the old EventSource is closed and a new one is created
connect(h) ==
  IF h.es = "open" \/ ~h.online THEN h
  ELSE [h EXCEPT !.es = "connecting", !.sources = @ + 1]

\* eventSource.onerror(): offline, it returns; online, it starts polling and,
\* while reconnectAttempts < maxReconnectAttempts, counts an attempt and calls
\* connect() through executeWithRecovery, whose first attempt runs at once
onerror(h) ==
  IF ~h.online THEN h
  ELSE LET started == startPolling(h)
       IN IF started.threw THEN started.hook
          ELSE IF started.hook.reconnectAttempts < maxReconnectAttempts
          THEN connect([started.hook EXCEPT !.reconnectAttempts = @ + 1])
          ELSE started.hook

HookStep(h) ==
  /\ hook' = h
  /\ hook'.sources <= MaxSources
  /\ hook'.handles <= MaxHandles
  /\ UNCHANGED <<testMode, gameVars, timerVars, storeVars, nextId, ret, events,
                 roleVars, startedAt, scoreVars, streams, breaker, offline, recovery>>

\* the first effect of the hook: connect(), in a browser or under Node
Mount ==
  \E numeric \in BOOLEAN, online \in BOOLEAN :
    /\ hook = NoHook
    /\ HookStep(connect([mounted |-> TRUE, numeric |-> numeric, online |-> online,
                          es |-> "none", sources |-> 0, current |-> 0, live |-> {},
                          handles |-> 0, adjusters |-> 0, attached |-> FALSE,
                          reconnectAttempts |-> 0, last |-> "mount"]))

\* eventSource.onopen
PushOpens ==
  /\ hook # NoHook
  /\ hook.es = "connecting" /\ hook.online
  /\ HookStep([stopPolling(hook) EXCEPT !.es = "open", !.reconnectAttempts = 0,
                                        !.last = "onopen"])

\* the EventSource fails: it will retry by itself (readyState CONNECTING) or
\* not (CLOSED); then onerror runs
PushFails ==
  \E readyState \in {"connecting", "closed"} :
    /\ hook # NoHook
    /\ hook.es \in {"connecting", "open"}
    /\ HookStep([onerror([hook EXCEPT !.es = readyState]) EXCEPT !.last = "onerror"])

AdjusterFires ==
  /\ hook # NoHook
  /\ hook.adjusters > 0 /\ hook.current # 0
  /\ HookStep([adjust(hook) EXCEPT !.last = "adjuster"])

\* window 'online': handleOnline calls connect()
GoesOnline ==
  /\ hook.mounted /\ ~hook.online
  /\ HookStep([connect([hook EXCEPT !.online = TRUE]) EXCEPT !.last = "online"])

\* window 'offline': the network is gone, handleOffline starts nothing
GoesOffline ==
  /\ hook.mounted /\ hook.online
  /\ HookStep([hook EXCEPT !.online = FALSE, !.last = "offline"])

\* the cleanup of the effect: disconnect()
Unmount ==
  /\ hook.mounted
  /\ HookStep([stopPolling(hook) EXCEPT !.es = "none", !.mounted = FALSE,
                                        !.last = "unmount"])

NextHook ==
  \/ Mount
  \/ PushOpens
  \/ PushFails
  \/ AdjusterFires
  \/ GoesOnline
  \/ GoesOffline
  \/ Unmount

SpecHook == Init /\ [][NextHook]_vars

\* ------------------------------------------------------------------ C27
C27_Polling(h) == h # NoHook /\ h.current # 0 /\ h.live = {h.current}

\* C27: when the event stream fails while the browser is online, polling is
\* active as soon as onerror returns; polling that is active stays active
\* through every step except an open of the event stream and the unmount of
\* the hook, after both of which no poll interval is set; and never more than
\* one poll interval is set.
C27_PollingFallback ==
  /\ [](hook # NoHook => Cardinality(hook.live) <= 1)
  /\ [][/\ (hook'.last = "onerror" /\ hook' # hook /\ hook.online) => C27_Polling(hook')
        /\ (C27_Polling(hook) /\ hook'.last \notin {"onopen", "unmount"}) => C27_Polling(hook')
        /\ (hook' # hook /\ hook'.last \in {"onopen", "unmount"}) => hook'.live = {}]_vars

\* polling started by a failure has been kept through an adjustment and
\* stopped by the next open
C27_Witness ==
  /\ hook.last = "onopen"
  /\ hook.handles >= 2
  /\ hook.live = {}

\* ------------------------------------------------------------------ C28
\* onerror has made a reconnection attempt in this step: it has created a new
\* EventSource
C28_AttemptInHandler == hook'.last = "onerror" /\ hook'.sources > hook.sources

\* C28: between two opens of the event stream at most maxReconnectAttempts
\* reconnection attempts are counted, and a reconnection attempt is made only
\* after its backoff delay: the step in which the stream fails creates no new
\* EventSource itself.
C28_BoundedDelayedReconnect ==
  /\ [](hook # NoHook => hook.reconnectAttempts <= maxReconnectAttempts)
  /\ [][~C28_AttemptInHandler]_vars

\* ------------------------------------------- OfflineGameManager (client)
\* offline is the localStorage of one browser as the manager uses it:
\* submission[p] is the item under 'offline_submission_<p>' and votes[p] the
\* item under 'offline_votes_<p>', each the number of the action it holds (0
\* when the key is absent); taken numbers the actions taken offline; last is
\* the latest call, with the HTTP statuses a sync received; posted lists, in
\* the order of arrival, the actions whose replay request reached the API.

\* addOfflineSubmission: localStorage.setItem under the player's one key
AddOfflineSubmission ==
  \E playerId \in Ids :
    /\ offline.taken < MaxOfflineActions
    /\ offline' = [offline EXCEPT
                     !.submission[playerId] = offline.taken + 1,
                     !.taken = @ + 1,
                     !.last = [op |-> "addOfflineSubmission", statuses |-> <<>>,
                               threw |-> FALSE]]
    /\ UNCHANGED <<testMode, gameVars, timerVars, storeVars, nextId, ret, events,
                   roleVars, startedAt, scoreVars, streams, breaker, hook, recovery>>

\* addOfflineVote: localStorage.setItem under the player's one key
AddOfflineVote ==
  \E playerId \in Ids :
    /\ offline.taken < MaxOfflineActions
    /\ offline' = [offline EXCEPT
                     !.votes[playerId] = offline.taken + 1,
                     !.taken = @ + 1,
                     !.last = [op |-> "addOfflineVote", statuses |-> <<>>,
                               threw |-> FALSE]]
    /\ UNCHANGED <<testMode, gameVars, timerVars, storeVars, nextId, ret, events,
                   roleVars, startedAt, scoreVars, streams, breaker, hook, recovery>>

\* getOfflineActions: the stored items, by the number of the action they hold
getOfflineActions(q) ==
  [submissions |-> {q.submission[p] : p \in Ids} \ {0},
   votes |-> {q.votes[p] : p \in Ids} \ {0}]

\* the bodies syncOfflineActions posts
submitBody == [roundNumber |-> 1, answer |-> "text", isOfflineSync |-> TRUE]
voteBody == [predictions |-> "votes", isOfflineSync |-> TRUE]

\* POST /api/submit, body validation: a body without content is answered 400
submitStatus(body) == IF "content" \notin DOMAIN body THEN 400 ELSE 200

\* POST /api/vote, body validation: a body without targetPlayerId or
\* predictedRole is answered 400
voteStatus(body) ==
  IF "targetPlayerId" \notin DOMAIN body \/ "predictedRole" \notin DOMAIN body
  THEN 400 ELSE 200

\* the elements of a set of action numbers, lowest first
RECURSIVE ascending(_)
ascending(S) ==
  IF S = {} THEN <<>>
  ELSE LET a == CHOOSE x \in S : \A y \in S : x <= y
       IN <<a>> \o ascending(S \ {a})

\* the order in which syncOfflineActions posts: the submissions, then the votes
replayOrder(actions) == ascending(actions.submissions) \o ascending(actions.votes)

\* syncOfflineActions: with nothing stored it returns true; otherwise it posts
\* every submission, then every vote, reading no response, and clears the
\* stored actions; only a fetch that throws (sent of the posts got through
\* before it) ends the sync without clearing
SyncOfflineActions ==
  LET actions == getOfflineActions(offline)
      n == Cardinality(actions.submissions) + Cardinality(actions.votes)
      status(i) == IF i <= Cardinality(actions.submissions)
                   THEN submitStatus(submitBody) ELSE voteStatus(voteBody)
  IN
  /\ n > 0
  /\ \E sent \in 0 .. n :
       /\ Len(offline.posted) + sent <= MaxPosted
       /\ offline' =
            IF sent = n
            THEN [offline EXCEPT
                    !.submission = [p \in Ids |-> 0],
                    !.votes = [p \in Ids |-> 0],
                    !.last = [op |-> "syncOfflineActions",
                              statuses |-> [i \in 1 .. n |-> status(i)],
                              threw |-> FALSE],
                    !.posted = @ \o replayOrder(actions)]
            ELSE [offline EXCEPT
                    !.last = [op |-> "syncOfflineActions",
                              statuses |-> [i \in 1 .. sent |-> status(i)],
                              threw |-> TRUE],
                    !.posted = @ \o SubSeq(replayOrder(actions), 1, sent)]
  /\ UNCHANGED <<testMode, gameVars, timerVars, storeVars, nextId, ret, events,
                 roleVars, startedAt, scoreVars, streams, breaker, hook, recovery>>

NextOffline ==
  \/ AddOfflineSubmission
  \/ AddOfflineVote
  \/ SyncOfflineActions

SpecOffline == Init /\ [][NextOffline]_vars

\* ------------------------------------------------------------------ C29
\* C29: storing a submission or a vote taken offline leaves every action that
\* is stored and not yet replayed in the store: what getOfflineActions
\* returned before, it still returns afterwards.
C29_EnqueueKeepsEarlier ==
  [][offline'.last.op \in {"addOfflineSubmission", "addOfflineVote"} =>
       /\ getOfflineActions(offline).submissions \subseteq getOfflineActions(offline').submissions
       /\ getOfflineActions(offline).votes \subseteq getOfflineActions(offline').votes]_vars

\* ------------------------------------------------------------------ C30
\* the stored actions are gone after this step
C30_Cleared ==
  /\ offline'.last.op = "syncOfflineActions"
  /\ offline'.taken = offline.taken
  /\ getOfflineActions(offline) # getOfflineActions(offline')

\* C30: a sync clears the stored actions only when every replay was accepted
\* by the server: no post threw and every response had status 200.
C30_ClearedOnlyIfAccepted ==
  [][C30_Cleared =>
       /\ ~offline'.last.threw
       /\ \A i \in 1 .. Len(offline'.last.statuses) : offline'.last.statuses[i] = 200]_vars

\* ------------------------------------------------------------------ C31
\* the number of replay requests for action a that reached the API
C31_Replays(q, a) == Cardinality({i \in DOMAIN q.posted : q.posted[i] = a})

\* a sync that ends with the stored actions cleared
C31_SyncClears ==
  /\ offline'.last.op = "syncOfflineActions"
  /\ ~offline'.last.threw
  /\ offline'.last.statuses # <<>>

\* C31: an action stored offline is replayed exactly once: no action reaches
\* the API more than once, whatever number of syncs run and whichever of their
\* requests fail, and when a sync clears the store every action it found
\* there has reached the API once.
C31_ReplayedExactlyOnce ==
  /\ [](\A a \in 1 .. offline.taken : C31_Replays(offline, a) <= 1)
  /\ [][C31_SyncClears =>
          \A a \in getOfflineActions(offline).submissions \cup getOfflineActions(offline).votes :
            C31_Replays(offline', a) = 1]_vars

\* ------------------------------------------------------------------ C32
\* C32: once the cleanup of the hook has run, nothing of the hook is active:
\* no EventSource, no poll interval and no interval adjuster.
C32_CancelledLeavesNothing ==
  (hook.last = "unmount") =>
    /\ hook.es = "none"
    /\ hook.live = {}
    /\ hook.adjusters = 0

\* ------------------------------------------------------ room integrity
\* restoreFromBackup that leaves the stored checksum as it was
restoreKeepingChecksum ==
  IF ~backup.present
  THEN [ok |-> FALSE, sessions |-> sessions, savedPhase |-> savedPhase,
        checksumValid |-> checksumValid]
  ELSE [ok |-> TRUE, sessions |-> backup.sessionBackup,
        savedPhase |-> backup.savedPhase, checksumValid |-> checksumValid]

\* SessionManager.restoreFromBackup: false without a backup; otherwise the
\* room takes the sessions and the game state of the backup and
\* updateRoomIntegrity recomputes the checksum
restoreFromBackup ==
  IF ~backup.present
  THEN [ok |-> FALSE, sessions |-> sessions, savedPhase |-> savedPhase,
        checksumValid |-> checksumValid]
  ELSE [ok |-> TRUE, sessions |-> backup.sessionBackup,
        savedPhase |-> backup.savedPhase, checksumValid |-> TRUE]

\* SessionManager.getOrCreateRoom called by itself: the whole room it returns
GetOrCreateRoom ==
  LET restored == restoreFromBackup IN
  /\ roomExists' = TRUE
  /\ IF ~roomExists THEN
       /\ sessions' = EmptySessions
       /\ savedPhase' = "none"
       /\ checksumValid' = TRUE
     ELSE IF checksumValid THEN
       UNCHANGED <<sessions, savedPhase, checksumValid>>
     ELSE IF restored.ok THEN
       /\ sessions' = restored.sessions
       /\ savedPhase' = restored.savedPhase
       /\ checksumValid' = restored.checksumValid
     ELSE
       /\ sessions' = EmptySessions
       /\ savedPhase' = "none"
       /\ checksumValid' = TRUE
  /\ ret' = Ret("getOrCreateRoom", TRUE, NoId)
  /\ events' = <<>>
  /\ UNCHANGED <<gameVars, timerVars, playerSessions, backup, nextId, testMode,
                 roleVars, startedAt, scoreVars, streams, clientVars>>

\* SessionManager.performIntegrityCheck: a room whose checksum does not match
\* is restored from its backup when it has one, and is left as it is otherwise
PerformIntegrityCheck ==
  LET restored == restoreFromBackup IN
  /\ roomExists
  /\ IF checksumValid THEN UNCHANGED <<sessions, savedPhase, checksumValid>>
     ELSE /\ sessions' = restored.sessions
          /\ savedPhase' = restored.savedPhase
          /\ checksumValid' = restored.checksumValid
  /\ ret' = Ret("performIntegrityCheck", checksumValid \/ restored.ok, NoId)
  /\ events' = <<>>
  /\ UNCHANGED <<gameVars, timerVars, roomExists, playerSessions, backup, nextId,
                 testMode, roleVars, startedAt, scoreVars, streams, clientVars>>

\* clients join and leave, the backup and integrity timers fire, and the room
\* is fetched
NextIntegrity ==
  \/ AddNewPlayer
  \/ RemovePlayer
  \/ PerformBackup
  \/ GetOrCreateRoom
  \/ PerformIntegrityCheck
  \/ Reset

SpecIntegrity == Init /\ [][NextIntegrity]_vars

\* ------------------------------------------------------------------ C33
\* this step is a call of getOrCreateRoom
C33_Returns == ret'.op = "getOrCreateRoom" /\ UNCHANGED <<gameVars, backup, playerSessions>>

\* C33: when getOrCreateRoom returns, the stored checksum of the room matches
\* its contents; if the checksum did not match and a backup exists, the room
\* holds the sessions and the game state of the backup; if it did not match
\* and there is no backup, the room has no sessions and no game state.
C33_RoomVerifiedOnReturn ==
  [][C33_Returns =>
       /\ roomExists' /\ checksumValid'
       /\ (roomExists /\ ~checksumValid /\ backup.present) =>
            (sessions' = backup.sessionBackup /\ savedPhase' = backup.savedPhase)
       /\ (roomExists /\ ~checksumValid /\ ~backup.present) =>
            (sessions' = EmptySessions /\ savedPhase' = "none")]_vars

\* getOrCreateRoom has put back the session of a player who had left
C33_Witness ==
  /\ ret.op = "getOrCreateRoom"
  /\ checksumValid /\ backup.present
  /\ sessions = backup.sessionBackup
  /\ \E pid \in Ids : pid \notin playerSessions /\ sessions[pid] # NoSession

\* ------------------------------------------------------------------ C34
\* C34: when a periodic integrity check has run, the stored checksum of the
\* room matches its contents: a corrupted room was restored from its backup
\* or, without a backup, emptied.
C34_VerifiedAfterCheck ==
  [][ret'.op = "performIntegrityCheck" /\ ret' # ret => checksumValid']_vars

\* ------------------------ NetworkRecoveryManager: executeWithRecovery
\* recovery is one call of executeWithRecovery: the strategy's maxRetries, the
\* loop variable attempt, the number of times the operation was invoked
\* (calls), the callbacks made, and the outcome of the latest invocation.

\* the test that ends the loop after a failed attempt, never true
neverFinal(run) == FALSE

\* "Don't retry on final attempt": attempt === strategy.maxRetries
finalAttempt(run) == run.attempt = run.maxRetries

\* the call starts: strategy is the default strategy overridden by
\* options.strategy, and the loop is entered with attempt = 0
ExecuteWithRecovery ==
  \E maxRetries \in (0 .. MaxRetries) \cup {defaultMaxRetries} :
    /\ recovery.status \in {"idle", "returned", "threw"}
    /\ recovery' = [status |-> "running", maxRetries |-> maxRetries, attempt |-> 0,
                    calls |-> 0, onRetry |-> 0, onSuccess |-> 0, onFailure |-> 0,
                    last |-> "none"]
    /\ UNCHANGED <<testMode, gameVars, timerVars, storeVars, nextId, ret, events,
                   roleVars, startedAt, scoreVars, streams, breaker, hook, offline>>

\* one pass of the loop body: await operation() resolves, or rejects with an
\* error that classifyError finds retryable or not
Attempt ==
  \E outcome \in {"resolved", "retryable", "notRetryable"} :
    LET invoked == [recovery EXCEPT !.calls = @ + 1, !.last = outcome] IN
    /\ recovery.status = "running"
    /\ recovery' =
         IF outcome = "resolved"
         THEN [invoked EXCEPT !.status = "returned",
                              !.onSuccess = IF recovery.attempt > 0 THEN @ + 1 ELSE @]
         ELSE IF outcome = "notRetryable" \/ finalAttempt(recovery)
         THEN [invoked EXCEPT !.status = "threw", !.onFailure = @ + 1]
         ELSE [invoked EXCEPT !.status = "sleeping", !.onRetry = @ + 1]
    /\ UNCHANGED <<testMode, gameVars, timerVars, storeVars, nextId, ret, events,
                   roleVars, startedAt, scoreVars, streams, breaker, hook, offline>>

\* the timeout of sleep(delay) fires and the loop goes round
SleepEnds ==
  /\ recovery.status = "sleeping"
  /\ recovery' = [recovery EXCEPT !.status = "running", !.attempt = @ + 1]
  /\ UNCHANGED <<testMode, gameVars, timerVars, storeVars, nextId, ret, events,
                 roleVars, startedAt, scoreVars, streams, breaker, hook, offline>>

NextRecovery ==
  \/ ExecuteWithRecovery
  \/ Attempt
  \/ SleepEnds

\* the operation settles and the timeout of sleep fires
SpecRecovery ==
  Init /\ [][NextRecovery]_vars /\ WF_vars(Attempt) /\ WF_vars(SleepEnds)

\* ------------------------------------------------------------------ C35
C35_InProgress == recovery.status \in {"running", "sleeping"}
C35_Settled == recovery.status \in {"returned", "threw"}

NextView ==
  \/ JoinWith({"alice"}, {NoId})
  \/ StartGame
  \/ AdvancePhase
  \/ RemovePlayer
  \/ Reset
  \/ OpenStream
  \/ Abort

SpecView == Init /\ [][NextView]_vars

\* ------------------------------------------------------------------ C36
\* C36: a client whose event stream is open, having handled the snapshot and
\* every event sent on the stream, holds the orchestrator's phase and the
\* orchestrator's roster.
C36_ViewFollowsOrchestrator ==
  \A c \in Streams :
    C23_Open(c) =>
      /\ streams[c].gameData.currentPhase = currentPhase
      /\ streams[c].gameData.players = [i \in 1 .. Len(players) |-> players[i].id]

\* ------------------------------------------------------------------ C37
\* C37: the phase leaves lobby only in a step that is a successful startGame
\* or adminForceStart: no advance, timer callback or adminSetTimer takes the
\* session out of lobby.
C37_LobbyLeftOnlyByStart ==
  [][(currentPhase = "lobby" /\ currentPhase' # "lobby") =>
       (ret'.op \in {"startGame", "adminForceStart"} /\ ret'.ok)]_vars

\* ------------------------------------------------------- timers left alone
\* a game is joined, started, moved on and reset, and its timers fire
NextTimers ==
  \/ JoinWith({"alice", "bob"}, {NoId})
  \/ StartGame
  \/ AdvancePhase
  \/ RemovePlayer
  \/ TimerFires
  \/ Reset

\* every pending timeout eventually runs its callback
SpecTimers == Init /\ [][NextTimers]_vars /\ WF_vars(TimerFires)

\* ------------------------------------------------------------------ C38
\* this step is the callback of a phase timer, not a call of a client or admin
C38_TimerStep == ret'.op = "timer"

\* C38: when from some moment on no client or admin call is made, so that
\* only timer callbacks run, the session does not stay in a phase between
\* lobby and finished: a game in progress at that moment reaches finished.
C38_TimersFinishGame ==
  <>[][C38_TimerStep]_vars => <>[](currentPhase \in {"lobby", "finished"})

\* ------------------------------------------------------------------ C39
\* the ids of the participants in the session: the roster and the admin
C39_Participants ==
  PlayerIdsOf(players) \cup (IF adminPlayer # NoPlayer THEN {adminPlayer.id} ELSE {})

\* C39: the voter and the target of every stored vote, and the player of
\* every stored submission, are participants of the session at that moment,
\* also after a participant has left or was kicked.
C39_StoredRefersToParticipants ==
  /\ \A i \in 1 .. Len(votes) :
       /\ votes[i].voterId \in C39_Participants
       /\ votes[i].targetPlayerId \in C39_Participants
  /\ \A r \in Rounds : \A i \in 1 .. Len(submissions[r]) :
       submissions[r][i] \in C39_Participants

\* ------------------------------------------------------------------ C40
\* C40: while the phase is lobby or finished no timeout of setPhaseTimer is
\* pending and gameState.phaseEndTime is null.
C40_NoTimerOutsideGame ==
  currentPhase \in {"lobby", "finished"} => (pendingTimers = 0 /\ ~phaseEndTime)
====
